---- MODULE Spec2Model ----
(***************************************************************************)
(* Model of the geo-aware resolution engine of caddy-geo-redirect          *)
(* (package geoip): the decision cache with its CacheLen counter, the      *)
(* domain-location registry with its location and health refreshes, the    *)
(* cache sweeper, the selection call GetDomainWithSmallestGeoDistance and  *)
(* the DNS resolver cache.                                                 *)
(*                                                                         *)
(* Shared-memory operations of the Go code (sync.Map Load/Store/Delete,    *)
(* atomic.Uint64 Load/Add, RWMutex RLock/Lock/Unlock, a read or write of   *)
(* a record behind a pointer) are one step each, so every interleaving of  *)
(* the goroutines is a behaviour of Spec.                                  *)
(***************************************************************************)
EXTENDS Integers, FiniteSets, Sequences, TLC

\* ------------------------------------------------------------------ bounds
\* Largest value of the clock, in seconds.
MaxTime == 20
\* Granularity with which the clock advances, in seconds.
TimeStep == 5
\* Largest maxCacheSize handed to NewGeoIpDatabase.
MaxCap == 1
\* Number of ticks of the database syncer (one a day).
MaxDays == 3

\* ------------------------------------------------------- program constants
\* cacheTTLSec < 10 is rejected.
MinTTLSec == 10
\* time.NewTicker(10 * time.Second) of both cache sweepers.
SweepIntervalSec == 10
\* 6371.0: mean radius of Earth in kilometres.
EarthRadiusKm == 6371

\* ------------------------------------------------------------ input sets
\* Goroutines of the serving layer that call the engine.
Callers == {"c1", "c2"}
\* Client addresses: two that the geo database locates and one whose record
\* cannot be decoded.
ClientIPs == {"10.0.0.1", "10.0.0.2", "10.0.0.9"}
\* A public IPv6 client address; the geo database has a record of it.
PublicIPv6 == "2001:db8::1"
\* Keys the decision cache can hold.
EngineIPs == ClientIPs \cup {PublicIPv6}
\* cacheTTLSec arguments: one below the minimum, one valid.
TTLs == {5, 10}
\* args.HostingDomains, in configuration order.
hostingDomains == <<"eu.example.com", "us.example.com">>
Domains == {hostingDomains[i] : i \in 1..Len(hostingDomains)}
\* A name that is not configured, and the strings that are keys of the
\* registry map in the model.
OtherDomain == "old.example.com"
RegistryKeys == Domains \cup {OtherDomain}
\* The address each hosting domain resolves to when its DNS lookup succeeds.
HostIP(d) == IF d = "eu.example.com" THEN "192.0.2.1" ELSE "192.0.2.2"
\* Status codes a health probe can answer with; 0 stands for a transport
\* error (err != nil).
ProbeOutcomes == {0, 199, 200, 399, 400}

NoEntry == [none |-> TRUE]
Nil == 0
\* Heap cells for DomainGeoLocation records: the published map and the map
\* under construction hold at most one record per domain each.
RecIds == 1..(2 * Len(hostingDomains))
DefaultRec == [Lat |-> 0, Long |-> 0, IsAlive |-> FALSE]
NoEvent == [op |-> "none"]

\* ------------------------------------------------------ haversine distance
\* Coordinates are in units of 1e-4 degree; real numbers (radians, sines,
\* cosines) are fixed-point integers in units of 1/Scale; distances are in
\* units of 1e-4 km.
Deg(d) == d * 10000
Scale == 1000000000
\* math.Pi / 2
HalfPi == 1570796327
Abs(x) == IF x < 0 THEN -x ELSE x

\* Fixed-point numbers are split into three limbs to the base 1000, so that
\* no intermediate value of a product leaves the 32-bit integers.
Base == 1000
Limbs(x) == <<x % Base, (x \div Base) % Base, x \div (Base * Base)>>

\* a * b / m, rounded to the nearest integer, for a, b >= 0 and m = 10^6 or
\* 10^9: the columns of the long multiplication, the carries, and the digits
\* of the product above and below m.
MulDiv(a, b, m) ==
    LET x  == Limbs(a)
        y  == Limbs(b)
        c0 == x[1] * y[1]
        t1 == x[1] * y[2] + x[2] * y[1] + c0 \div Base
        t2 == x[1] * y[3] + x[2] * y[2] + x[3] * y[1] + t1 \div Base
        t3 == x[2] * y[3] + x[3] * y[2] + t2 \div Base
        t4 == x[3] * y[3] + t3 \div Base
        hi == t4 * Base + (t3 % Base)
        lo == (t1 % Base) * Base + (c0 % Base)
    IN  IF m = Scale
        THEN LET r == (t2 % Base) * Base * Base + lo
             IN  hi + (IF r >= m - r THEN 1 ELSE 0)
        ELSE hi * Base + (t2 % Base) + (IF lo >= m - lo THEN 1 ELSE 0)

\* The product of two fixed-point numbers.
Mul(x, y) ==
    IF x = 0 \/ y = 0 THEN 0
    ELSE IF x = Scale THEN y
    ELSE IF y = Scale THEN x
    ELSE MulDiv(x, y, Scale)

\* v / d, rounded to the nearest integer.
DivRound(v, d) == (2 * v + d) \div (2 * d)

\* term - term*x2/(n(n+1)) + term*x2^2/(n(n+1)(n+2)(n+3)) - ...: the Taylor
\* series of the sine (term = x, n = 2) and of the cosine (term = 1, n = 1).
RECURSIVE TaylorSum(_, _, _)
TaylorSum(term, x2, n) ==
    IF term = 0 THEN 0
    ELSE term - TaylorSum(DivRound(Mul(term, x2), n * (n + 1)), x2, n + 2)

\* math.Sin and math.Cos of an angle of at most 45 degrees, in radians.
Sin(x) == TaylorSum(x, Mul(x, x), 2)
Cos(x) == TaylorSum(Scale, Mul(x, x), 1)

\* math.Pi / 180 for half a unit of 1e-4 degree, times 10^6.
HalfUnitRad == 872664626

\* math.Sin of an angle of h/2 units of 1e-4 degree, 0 <= h <= Deg(180): the
\* argument is reduced to at most 45 degrees and converted to radians; the
\* sine is exact at 0 and 90 degrees.
SinHalf(h) ==
    IF h = 0 THEN 0
    ELSE IF h = Deg(180) THEN Scale
    ELSE IF h <= Deg(90) THEN Sin(MulDiv(h, HalfUnitRad, Base * Base))
    ELSE Cos(MulDiv(Deg(180) - h, HalfUnitRad, Base * Base))

\* math.Pow(math.Sin(diff/2), 2) for a difference of coordinates diff; the
\* value at 90 degrees is the exact 1/2.
Sin2Half(diff) ==
    LET d == IF Abs(diff) > Deg(180) THEN Deg(360) - Abs(diff) ELSE Abs(diff)
    IN  IF d = Deg(90) THEN Scale \div 2
        ELSE Mul(SinHalf(d), SinHalf(d))

\* math.Cos of a latitude.
CosDeg(lat) == SinHalf(2 * (Deg(90) - Abs(lat)))

\* n steps of Newton's iteration r := r * (3 - a*r*r) / 2 for the inverse
\* square root of a, 1/4 <= a <= 1.
RECURSIVE InvSqrt(_, _, _)
InvSqrt(a, r, n) ==
    IF n = 0 THEN r
    ELSE InvSqrt(a, Mul(r, Scale + (Scale - Mul(Mul(a, r), r)) \div 2), n - 1)

\* math.Sqrt of a fixed-point number of at most 1: a below 1/4 is scaled up
\* by 4 and the root halved.
RECURSIVE Sqrt(_)
Sqrt(a) ==
    IF a = 0 THEN 0
    ELSE IF a < Scale \div 4 THEN DivRound(Sqrt(4 * a), 2)
    ELSE Mul(a, InvSqrt(a, 1200000000, 7))

\* n steps of Newton's iteration x := x * (2 - d*x) for the inverse of d,
\* 1 <= d <= 2.
RECURSIVE Inverse(_, _, _)
Inverse(d, x, n) ==
    IF n = 0 THEN x
    ELSE Inverse(d, Mul(x, 2 * Scale - Mul(d, x)), n - 1)

\* q - q^3/3 + q^5/5 - ...: the series of the arc tangent, for pow = q^n.
RECURSIVE AtanSum(_, _, _)
AtanSum(pow, q2, n) ==
    IF pow \div n = 0 THEN 0
    ELSE DivRound(pow, n) - AtanSum(Mul(pow, q2), q2, n + 2)

\* The angle of at most 45 degrees whose sine is sqrt(a), for a <= 1/2, as
\* twice the arc tangent of sin/(1+cos).
SmallAngle(a) ==
    LET q == Mul(Sqrt(a), Inverse(Scale + Sqrt(Scale - a), (2 * Scale) \div 3, 6))
    IN  2 * AtanSum(q, Mul(q, q), 1)

\* math.Atan2(math.Sqrt(a), math.Sqrt(1-a)): the angle whose sine is sqrt(a);
\* above 45 degrees it is the complement of the angle whose sine is
\* sqrt(1-a); exact at a = 0, 1/2 and 1.
CentralAngle(a) ==
    IF a = 0 THEN 0
    ELSE IF a = Scale THEN HalfPi
    ELSE IF a = Scale \div 2 THEN HalfPi \div 2
    ELSE IF a > Scale \div 2 THEN HalfPi - SmallAngle(Scale - a)
    ELSE SmallAngle(a)

\* Mutant: diffLon is the sum of the longitudes.
HaversineAMutant(lat1, lon1, lat2, lon2) ==
    Sin2Half(lat2 - lat1) + Mul(Mul(CosDeg(lat1), CosDeg(lat2)), Sin2Half(lon2 + lon1))

\* a := sin^2(diffLat/2) + cos(lat1Rad) * cos(lat2Rad) * sin^2(diffLon/2)
HaversineA(lat1, lon1, lat2, lon2) ==
    Sin2Half(lat2 - lat1) + Mul(Mul(CosDeg(lat1), CosDeg(lat2)), Sin2Half(lon2 - lon1))

\* Mutant: the equatorial radius.
EarthRadiusMutant == EarthRadiusKm + 7

\* 6371.0
EarthRadius == EarthRadiusKm

\* HaversineDistance: 6371.0 * c with c = 2 * atan2(sqrt(a), sqrt(1-a)).
HaversineDistance(lat1, lon1, lat2, lon2) ==
    LET a == HaversineA(lat1, lon1, lat2, lon2)
    IN  MulDiv(CentralAngle(a), 2 * EarthRadius * 10, Base * Base)

\* math.MaxFloat64: larger than every distance.
MaxFloat64 == 2147483647

VARIABLES
    now,                 \* wall clock, seconds
    maxCacheSize,        \* g.maxCacheSize
    cache,               \* g.cache: client IP -> GeoCacheEntry or NoEntry
    CacheLen,            \* g.CacheLen
    recs,                \* heap of DomainGeoLocation records
    domainLocations,     \* g.domainLocations: domain -> record pointer or Nil
    domainLocationsLock, \* g.domainLocationsLock: readers and writer
    published,           \* history: record values of the map at its last swap
    sel,                 \* per caller: position and locals of its selection call
    upd,                 \* location-and-health updater goroutine
    sweep,               \* decision cache sweeper goroutine
    dnsCache,            \* DnsResolver.cache: hostname -> DnsCacheEntry or NoEntry
    dnsSweepNext,        \* time of the next tick of the DNS cache cleaner
    database,            \* g.database: the snapshot the open Reader holds
    databaseFile,        \* the file at g.databasePath
    databaseLock,        \* g.databaseLock: readers and writer
    syncer,              \* goroutine of StartPeriodicGeoDBSyncer
    http,                \* the request Middleware.ServeHTTP is serving
    out                  \* the return of the step just taken, or NoEvent

vars == <<now, maxCacheSize, cache, CacheLen, recs, domainLocations,
          domainLocationsLock, published, sel, upd, sweep, dnsCache, dnsSweepNext,
          database, databaseFile, databaseLock, syncer, http, out>>


\* ------------------------------------------------------------ geo lookup
\* Results of Reader.Lookup other than a well-formed record.
NotFound == [notFound |-> TRUE]
Malformed == [malformed |-> TRUE]
\* Snapshots of the geo database: the one on disk at start-up and the one the
\* remote source serves.
Snapshots == {"v1", "v2"}

\* Content of a snapshot: what Lookup(ip) finds. The record of 10.0.0.9 and
\* of 198.51.100.9 cannot be decoded into MMDBLocation; an address that is
\* not listed has no record.
MMDB(db, ip) ==
    CASE ip = "10.0.0.1"  -> [Lat |-> 0, Long |-> 0]
      [] ip = "10.0.0.2"  -> [Lat |-> 0, Long |-> Deg(90)]
      [] ip = "192.0.2.1" -> [Lat |-> 0, Long |-> 0]
      [] ip = "192.0.2.2" -> [Lat |-> 0, Long |-> Deg(180)]
      [] ip = PublicIPv6   -> [Lat |-> 0, Long |-> Deg(180)]
      [] ip = "203.0.113.5" /\ db = "v2" -> [Lat |-> Deg(90), Long |-> 0]
      [] ip \in {"10.0.0.9", "198.51.100.9"} -> Malformed
      [] OTHER            -> NotFound

\* Lookup(*ip).Decode(&record): an error for a record that cannot be decoded;
\* when Lookup found no record Decode returns nil and leaves record as it
\* was; otherwise record is filled in.
Decode(result, record) ==
    IF result = Malformed THEN [err |-> TRUE, record |-> record]
    ELSE IF result = NotFound THEN [err |-> FALSE, record |-> record]
    ELSE [err |-> FALSE, record |-> result]

\* getIPLatLong: the location of ip in the snapshot g.database, or NoEntry
\* for the error return.
getIPLatLong(ip) ==
    LET decoded == Decode(MMDB(database, ip), [Lat |-> 0, Long |-> 0])
    IN  IF decoded.err THEN NoEntry
        ELSE [Lat |-> decoded.record.Lat, Long |-> decoded.record.Long]

\* --------------------------------------------------------------- helpers
Min2(a, b) == IF a < b THEN a ELSE b
\* Keys of a sync.Map or Go map modelled as a total function.
Keys(m) == {k \in DOMAIN m : m[k] # NoEntry}
\* Keys of the registry map.
Registered(m) == {d \in RegistryKeys : m[d] # Nil}
NoLocations == [d \in RegistryKeys |-> Nil]
\* No health probe has answered for any domain in this refresh.
NoStatus == -1
NoStatuses == [d \in Domains |-> NoStatus]
\* No domain has been looked up in this location refresh yet.
NoLookups == [d \in Domains |-> "none"]
\* make(map[string]*DomainGeoLocation) has no record allocated; a new record
\* takes the lowest heap cell that neither the published map nor the map
\* under construction points to.
NewRec(newLocations) ==
    LET used == {domainLocations[d] : d \in RegistryKeys}
                    \cup {newLocations[d] : d \in RegistryKeys}
        free == RecIds \ used
    IN  CHOOSE r \in free : \A q \in free : r <= q
\* Record values reachable through a registry map.
Deref(m, heap) ==
    [d \in RegistryKeys |-> IF m[d] = Nil THEN NoEntry ELSE heap[m[d]]]
\* Cells no map points to any more are collected (reset to the zero record).
Collect(m, heap) ==
    [r \in RecIds |-> IF r \in {m[d] : d \in RegistryKeys} THEN heap[r] ELSE DefaultRec]

\* State of a caller that is not inside GetDomainWithSmallestGeoDistance; wg
\* and resultsChan are locals of the variant of the call that resolves the
\* domains itself.
IdleSel ==
    [pc |-> "idle", ip |-> "", ttl |-> 0, clientLocation |-> NoEntry,
     toVisit |-> {}, bestDomain |-> "", minDistance |-> MaxFloat64,
     obs |-> [d \in Domains |-> NoEntry], geoLookups |-> 0, distCalcs |-> 0,
     stored |-> FALSE, wg |-> 0, resultsChan |-> <<>>]

\* What a selection call hands back to its caller, with the history of the
\* call: hit (answered by cache.Load), obs (the record values the range loop
\* read), count (the number in the all-domains-down error), geoLookups and
\* distCalcs (calls of getIPLatLong and HaversineDistance), stored (the call
\* executed cache.Store).
SelReturn(c, s, domain, err, hit, count) ==
    [op |-> "select", caller |-> c, ip |-> s.ip, ttl |-> s.ttl,
     domain |-> domain, err |-> err, hit |-> hit, count |-> count,
     obs |-> s.obs, geoLookups |-> s.geoLookups, distCalcs |-> s.distCalcs,
     stored |-> s.stored]

\* -------------------------------------- GetDomainWithSmallestGeoDistance
\* Mutant: the limit is 5 instead of 10.
TTLValidMutant(cacheTTLSec) == ~(cacheTTLSec < 5)

\* if cacheTTLSec < 10 { return "", error }
TTLValid(cacheTTLSec) == ~(cacheTTLSec < MinTTLSec)

\* Mutant: the entry of another key is loaded.
CacheLoadMutant(clientIp) == cache[CHOOSE ip \in ClientIPs : ip # clientIp]

\* g.cache.Load(clientIpStr)
CacheLoad(clientIp) == cache[clientIp]

\* Mutant: the liveness test is dropped.
NotAliveMutant(hostLocation) == FALSE

\* if !hostLocation.IsAlive { continue }
NotAlive(hostLocation) == ~hostLocation.IsAlive

\* Mutant: != in place of <.
CloserMutant(distance, minDistance) == distance # minDistance

\* if distance < minDistance
Closer(distance, minDistance) == distance < minDistance

\* Mutant: the error counts the configured domains.
DomainCountMutant == Len(hostingDomains)

\* len(g.domainLocations) of the all-domains-down error
DomainCount == Cardinality(Registered(domainLocations))

\* Mutant: the test is dropped.
NoneAliveMutant(s) == FALSE

\* if bestDomain == ""
NoneAlive(s) == s.bestDomain = ""

\* Mutant: < in place of <=.
CapacityOkMutant == CacheLen < maxCacheSize

\* if int(g.CacheLen.Load()) <= g.maxCacheSize
CapacityOk == CacheLen <= maxCacheSize

\* Mutant: the entry names the first configured domain.
NewCacheEntryMutant(s) == [Domain |-> hostingDomains[1], TTLSec |-> s.ttl, InsertTime |-> now]

\* The GeoCacheEntry handed to cache.Store.
NewCacheEntry(s) == [Domain |-> s.bestDomain, TTLSec |-> s.ttl, InsertTime |-> now]

\* cacheTTLSec below 10: the call returns the error at once.
GetDomain_RejectTTL(c, clientIp, cacheTTLSec) ==
    /\ sel[c].pc = "idle"
    /\ ~TTLValid(cacheTTLSec)
    /\ out' = SelReturn(c, [IdleSel EXCEPT !.ip = clientIp, !.ttl = cacheTTLSec],
                        "", "ttl", FALSE, 0)
    /\ UNCHANGED <<database, databaseFile, databaseLock, syncer, http,
                   now, maxCacheSize, cache, CacheLen, recs, domainLocations,
                   domainLocationsLock, published, sel, upd, sweep, dnsCache,
                   dnsSweepNext>>

\* cache.Load finds an entry: the call returns its domain.
GetDomain_CacheHit(c, clientIp, cacheTTLSec) ==
    /\ sel[c].pc = "idle"
    /\ TTLValid(cacheTTLSec)
    /\ CacheLoad(clientIp) # NoEntry
    /\ out' = SelReturn(c, [IdleSel EXCEPT !.ip = clientIp, !.ttl = cacheTTLSec],
                        CacheLoad(clientIp).Domain, "", TRUE, 0)
    /\ UNCHANGED <<database, databaseFile, databaseLock, syncer, http,
                   now, maxCacheSize, cache, CacheLen, recs, domainLocations,
                   domainLocationsLock, published, sel, upd, sweep, dnsCache,
                   dnsSweepNext>>

\* cache.Load finds nothing: the call goes on to locate the client.
GetDomain_CacheMiss(c, clientIp, cacheTTLSec) ==
    /\ sel[c].pc = "idle"
    /\ TTLValid(cacheTTLSec)
    /\ CacheLoad(clientIp) = NoEntry
    /\ sel' = [sel EXCEPT ![c] = [IdleSel EXCEPT !.pc = "locate", !.ip = clientIp,
                                                  !.ttl = cacheTTLSec]]
    /\ out' = NoEvent
    /\ UNCHANGED <<database, databaseFile, databaseLock, syncer, http,
                   now, maxCacheSize, cache, CacheLen, recs, domainLocations,
                   domainLocationsLock, published, upd, sweep, dnsCache,
                   dnsSweepNext>>

\* getIPLatLong(clientIp) succeeds; the call holds the read lock of the
\* database from its RLock to its return.
GetDomain_Locate(c) ==
    /\ sel[c].pc = "locate"
    /\ ~databaseLock.writer
    /\ getIPLatLong(sel[c].ip) # NoEntry
    /\ sel' = [sel EXCEPT ![c].pc = "rlock",
                          ![c].clientLocation = getIPLatLong(sel[c].ip),
                          ![c].geoLookups = @ + 1]
    /\ out' = NoEvent
    /\ UNCHANGED <<database, databaseFile, databaseLock, syncer, http,
                   now, maxCacheSize, cache, CacheLen, recs, domainLocations,
                   domainLocationsLock, published, upd, sweep, dnsCache,
                   dnsSweepNext>>

\* getIPLatLong(clientIp) fails: "failed to get client location".
GetDomain_LocateFail(c) ==
    /\ sel[c].pc = "locate"
    /\ ~databaseLock.writer
    /\ getIPLatLong(sel[c].ip) = NoEntry
    /\ out' = SelReturn(c, [sel[c] EXCEPT !.geoLookups = @ + 1], "", "lookup", FALSE, 0)
    /\ sel' = [sel EXCEPT ![c] = IdleSel]
    /\ UNCHANGED <<database, databaseFile, databaseLock, syncer, http,
                   now, maxCacheSize, cache, CacheLen, recs, domainLocations,
                   domainLocationsLock, published, upd, sweep, dnsCache,
                   dnsSweepNext>>

\* g.domainLocationsLock.RLock(); the range loop will visit the keys of the
\* map, in an order the Go runtime chooses.
GetDomain_RLock(c) ==
    /\ sel[c].pc = "rlock"
    /\ ~domainLocationsLock.writer
    /\ domainLocationsLock' = [domainLocationsLock EXCEPT !.readers = @ \cup {c}]
    /\ sel' = [sel EXCEPT ![c].pc = "range",
                          ![c].toVisit = Registered(domainLocations)]
    /\ out' = NoEvent
    /\ UNCHANGED <<database, databaseFile, databaseLock, syncer, http,
                   now, maxCacheSize, cache, CacheLen, recs, domainLocations,
                   published, upd, sweep, dnsCache,
                   dnsSweepNext>>

\* One iteration of the range loop, for domain.
GetDomain_Visit(c, domain) ==
    /\ sel[c].pc = "range"
    /\ domain \in sel[c].toVisit
    /\ LET s == sel[c]
           hostLocation == recs[domainLocations[domain]]
           distance == HaversineDistance(s.clientLocation.Lat, s.clientLocation.Long,
                                         hostLocation.Lat, hostLocation.Long)
           seen == [s EXCEPT !.toVisit = @ \ {domain}, !.obs[domain] = hostLocation]
       IN  sel' = [sel EXCEPT ![c] =
                IF NotAlive(hostLocation) THEN seen
                ELSE IF Closer(distance, s.minDistance)
                     THEN [seen EXCEPT !.distCalcs = @ + 1, !.minDistance = distance,
                                       !.bestDomain = domain]
                     ELSE [seen EXCEPT !.distCalcs = @ + 1]]
    /\ out' = NoEvent
    /\ UNCHANGED <<database, databaseFile, databaseLock, syncer, http,
                   now, maxCacheSize, cache, CacheLen, recs, domainLocations,
                   domainLocationsLock, published, upd, sweep, dnsCache,
                   dnsSweepNext>>

\* The loop is over and bestDomain == "": the all-domains-down error, with
\* len(g.domainLocations); the deferred RUnlock runs.
GetDomain_AllDown(c) ==
    /\ sel[c].pc = "range"
    /\ sel[c].toVisit = {}
    /\ NoneAlive(sel[c])
    /\ out' = SelReturn(c, sel[c], "", "alldown", FALSE, DomainCount)
    /\ sel' = [sel EXCEPT ![c] = IdleSel]
    /\ domainLocationsLock' = [domainLocationsLock EXCEPT !.readers = @ \ {c}]
    /\ UNCHANGED <<database, databaseFile, databaseLock, syncer, http,
                   now, maxCacheSize, cache, CacheLen, recs, domainLocations,
                   published, upd, sweep, dnsCache,
                   dnsSweepNext>>

\* The loop is over with a best domain: the capacity check.
GetDomain_CheckCapacity(c) ==
    /\ sel[c].pc = "range"
    /\ sel[c].toVisit = {}
    /\ ~NoneAlive(sel[c])
    /\ sel' = [sel EXCEPT ![c].pc = IF CapacityOk THEN "add" ELSE "ret"]
    /\ out' = NoEvent
    /\ UNCHANGED <<database, databaseFile, databaseLock, syncer, http,
                   now, maxCacheSize, cache, CacheLen, recs, domainLocations,
                   domainLocationsLock, published, upd, sweep, dnsCache,
                   dnsSweepNext>>

\* g.CacheLen.Add(1)
GetDomain_Add(c) ==
    /\ sel[c].pc = "add"
    /\ CacheLen' = CacheLen + 1
    /\ sel' = [sel EXCEPT ![c].pc = "store"]
    /\ out' = NoEvent
    /\ UNCHANGED <<database, databaseFile, databaseLock, syncer, http,
                   now, maxCacheSize, cache, recs, domainLocations,
                   domainLocationsLock, published, upd, sweep, dnsCache,
                   dnsSweepNext>>

\* g.cache.Store(clientIp.String(), GeoCacheEntry{...})
GetDomain_Store(c) ==
    /\ sel[c].pc = "store"
    /\ cache' = [cache EXCEPT ![sel[c].ip] = NewCacheEntry(sel[c])]
    /\ sel' = [sel EXCEPT ![c].pc = "ret", ![c].stored = TRUE]
    /\ out' = NoEvent
    /\ UNCHANGED <<database, databaseFile, databaseLock, syncer, http,
                   now, maxCacheSize, CacheLen, recs, domainLocations,
                   domainLocationsLock, published, upd, sweep, dnsCache,
                   dnsSweepNext>>

\* return bestDomain, nil; the deferred RUnlock runs.
GetDomain_Return(c) ==
    /\ sel[c].pc = "ret"
    /\ out' = SelReturn(c, sel[c], sel[c].bestDomain, "", FALSE, 0)
    /\ sel' = [sel EXCEPT ![c] = IdleSel]
    /\ domainLocationsLock' = [domainLocationsLock EXCEPT !.readers = @ \ {c}]
    /\ UNCHANGED <<database, databaseFile, databaseLock, syncer, http,
                   now, maxCacheSize, cache, CacheLen, recs, domainLocations,
                   published, upd, sweep, dnsCache,
                   dnsSweepNext>>

\* The first step of a selection call of caller c with the given arguments.
GetDomain_Call(c, clientIp, cacheTTLSec) ==
    \/ GetDomain_RejectTTL(c, clientIp, cacheTTLSec)
    \/ GetDomain_CacheHit(c, clientIp, cacheTTLSec)
    \/ GetDomain_CacheMiss(c, clientIp, cacheTTLSec)

\* The steps of a selection call of caller c after the first.
GetDomain_Steps(c) ==
    \/ GetDomain_Locate(c)
    \/ GetDomain_LocateFail(c)
    \/ GetDomain_RLock(c)
    \/ \E domain \in Domains : GetDomain_Visit(c, domain)
    \/ GetDomain_AllDown(c)
    \/ GetDomain_CheckCapacity(c)
    \/ GetDomain_Add(c)
    \/ GetDomain_Store(c)
    \/ GetDomain_Return(c)

\* Every step of a selection call of caller c.
GetDomainWithSmallestGeoDistance(c) ==
    \/ \E clientIp \in ClientIPs, cacheTTLSec \in TTLs :
          GetDomain_Call(c, clientIp, cacheTTLSec)
    \/ GetDomain_Steps(c)


\* ------------------------------------------------------ StartCacheCleanup
\* if time.Since(entry.InsertTime).Seconds() > float64(entry.TTLSec)
Expired(entry) == now - entry.InsertTime > entry.TTLSec

\* The ticker fires: cache.Range starts. Range visits every key that stays
\* in the map for the whole call (must); a key stored meanwhile may or may
\* not be visited.
Sweep_Tick ==
    /\ sweep.pc = "idle"
    /\ now = sweep.next
    /\ sweep' = [pc |-> "range", visited |-> {}, must |-> Keys(cache), key |-> "",
                 next |-> sweep.next + SweepIntervalSec]
    /\ out' = NoEvent
    /\ UNCHANGED <<database, databaseFile, databaseLock, syncer, http,
                   now, maxCacheSize, cache, CacheLen, recs, domainLocations,
                   domainLocationsLock, published, sel, upd, dnsCache,
                   dnsSweepNext>>

\* The Range callback is called with (key, value) and tests the expiry.
Sweep_Visit(key) ==
    /\ sweep.pc = "range"
    /\ key \in Keys(cache) \ sweep.visited
    /\ sweep' = [sweep EXCEPT !.visited = @ \cup {key},
                              !.pc = IF Expired(cache[key]) THEN "delete" ELSE "range",
                              !.key = IF Expired(cache[key]) THEN key ELSE ""]
    /\ out' = NoEvent
    /\ UNCHANGED <<database, databaseFile, databaseLock, syncer, http,
                   now, maxCacheSize, cache, CacheLen, recs, domainLocations,
                   domainLocationsLock, published, sel, upd, dnsCache,
                   dnsSweepNext>>

\* g.cache.Delete(key)
Sweep_Delete ==
    /\ sweep.pc = "delete"
    /\ cache' = [cache EXCEPT ![sweep.key] = NoEntry]
    /\ sweep' = [sweep EXCEPT !.pc = "dec"]
    /\ out' = NoEvent
    /\ UNCHANGED <<database, databaseFile, databaseLock, syncer, http,
                   now, maxCacheSize, CacheLen, recs, domainLocations,
                   domainLocationsLock, published, sel, upd, dnsCache,
                   dnsSweepNext>>

\* g.CacheLen.Add(^uint64(0)): CacheLen holds the value int(CacheLen.Load())
\* reads, so the wrap-around at zero is the step from 0 to -1.
Sweep_Decrement ==
    /\ sweep.pc = "dec"
    /\ CacheLen' = CacheLen - 1
    /\ sweep' = [sweep EXCEPT !.pc = "range", !.key = ""]
    /\ out' = NoEvent
    /\ UNCHANGED <<database, databaseFile, databaseLock, syncer, http,
                   now, maxCacheSize, cache, recs, domainLocations,
                   domainLocationsLock, published, sel, upd, dnsCache,
                   dnsSweepNext>>

\* cache.Range returns; the goroutine waits for the next tick.
Sweep_Done ==
    /\ sweep.pc = "range"
    /\ (sweep.must \ sweep.visited) \cap Keys(cache) = {}
    /\ sweep' = [sweep EXCEPT !.pc = "idle", !.visited = {}, !.must = {}]
    /\ out' = NoEvent
    /\ UNCHANGED <<database, databaseFile, databaseLock, syncer, http,
                   now, maxCacheSize, cache, CacheLen, recs, domainLocations,
                   domainLocationsLock, published, sel, upd, dnsCache,
                   dnsSweepNext>>

StartCacheCleanup ==
    \/ Sweep_Tick
    \/ \E key \in EngineIPs : Sweep_Visit(key)
    \/ Sweep_Delete
    \/ Sweep_Decrement
    \/ Sweep_Done

\* ------------------------------------------------------------------ clock
\* Time passes, up to the next tick of the sweeper; the sweeper goroutine
\* runs when its ticker fires and finishes its Range before time moves on.
Tick ==
    /\ sweep.pc = "idle"
    /\ now < sweep.next
    /\ now < MaxTime
    /\ now' = Min2(Min2(now + TimeStep, sweep.next), MaxTime)
    /\ out' = NoEvent
    /\ UNCHANGED <<database, databaseFile, databaseLock, syncer, http,
                   maxCacheSize, cache, CacheLen, recs, domainLocations,
                   domainLocationsLock, published, sel, upd, sweep, dnsCache,
                   dnsSweepNext>>

\* --------------------------------------------------- updateDomainLocations
\* What net.DefaultResolver.LookupIP can answer for a domain: an error, no
\* address, the host address, two addresses, an address the geo database has
\* no record of, or an address whose record cannot be decoded.
LookupIP(domain) ==
    {[err |-> TRUE, ips |-> <<>>], [err |-> FALSE, ips |-> <<>>],
     [err |-> FALSE, ips |-> <<HostIP(domain)>>],
     [err |-> FALSE, ips |-> <<HostIP(domain), "192.0.2.3">>],
     [err |-> FALSE, ips |-> <<"198.51.100.7">>],
     [err |-> FALSE, ips |-> <<"198.51.100.9">>]}

\* How one iteration of the loop of updateDomainLocations ends for an answer
\* of LookupIP: "dns" for an error or no address, "geo" for an error of
\* getIPLatLong, "norecord" when getIPLatLong returned the zero location of an
\* address the snapshot has no record of, "ok" otherwise.
LookupOutcome(answer) ==
    IF answer.err \/ Len(answer.ips) = 0 THEN "dns"
    ELSE IF getIPLatLong(answer.ips[1]) = NoEntry THEN "geo"
    ELSE IF MMDB(database, answer.ips[1]) = NotFound THEN "norecord"
    ELSE "ok"

\* Mutant: the loops use a name that is not configured.
RangeDomainMutant(i) == OtherDomain

\* for _, domain := range g.hostingDomains
RangeDomain(i) == hostingDomains[i]

\* The ticker of StartDomainLocationAndHeathCheckUpdater fires.
Updater_Tick ==
    /\ upd.pc = "idle"
    /\ upd' = [pc |-> "loc", idx |-> 1, newLocations |-> NoLocations,
               status |-> NoStatuses, lookup |-> NoLookups]
    /\ out' = NoEvent
    /\ UNCHANGED <<database, databaseFile, databaseLock, syncer, http,
                   now, maxCacheSize, cache, CacheLen, recs, domainLocations,
                   domainLocationsLock, published, sel, sweep, dnsCache,
                   dnsSweepNext>>

\* One iteration of the loop of updateDomainLocations: resolve the domain,
\* locate its first address, and put a new record, alive, in newLocations;
\* lookup keeps how the iteration ended, for the history.
Locations_Resolve(answer) ==
    /\ upd.pc = "loc"
    /\ upd.idx <= Len(hostingDomains)
    /\ LET domain == RangeDomain(upd.idx)
           loc == getIPLatLong(answer.ips[1])
           r == NewRec(upd.newLocations)
       IN  /\ answer \in LookupIP(domain)
           /\ answer.err \/ Len(answer.ips) = 0 \/ ~databaseLock.writer
           /\ IF answer.err \/ Len(answer.ips) = 0 \/ loc = NoEntry
              THEN /\ upd' = [upd EXCEPT !.idx = @ + 1,
                                          !.lookup[domain] = LookupOutcome(answer)]
                   /\ recs' = recs
              ELSE /\ upd' = [upd EXCEPT !.idx = @ + 1, !.newLocations[domain] = r,
                                          !.lookup[domain] = LookupOutcome(answer)]
                   /\ recs' = [recs EXCEPT ![r] = [Lat |-> loc.Lat, Long |-> loc.Long,
                                                   IsAlive |-> TRUE]]
    /\ out' = NoEvent
    /\ UNCHANGED <<database, databaseFile, databaseLock, syncer, http,
                   now, maxCacheSize, cache, CacheLen, domainLocations,
                   domainLocationsLock, published, sel, sweep, dnsCache,
                   dnsSweepNext>>

LoopDoneMutant(idx) == idx >= Len(hostingDomains)
\* The range loop over g.hostingDomains has ended: the statements after it run.
LoopDone(idx) == idx > Len(hostingDomains)

\* g.domainLocationsLock.Lock() of a refresh whose loop is over.
Registry_Lock(phase, locked) ==
    /\ upd.pc = phase
    /\ LoopDone(upd.idx)
    /\ domainLocationsLock.readers = {}
    /\ ~domainLocationsLock.writer
    /\ domainLocationsLock' = [domainLocationsLock EXCEPT !.writer = TRUE]
    /\ upd' = [upd EXCEPT !.pc = locked]
    /\ out' = NoEvent
    /\ UNCHANGED <<database, databaseFile, databaseLock, syncer, http,
                   now, maxCacheSize, cache, CacheLen, recs, domainLocations,
                   published, sel, sweep, dnsCache,
                   dnsSweepNext>>

\* g.domainLocations = newLocations
Registry_Assign(locked, assigned) ==
    /\ upd.pc = locked
    /\ domainLocations' = upd.newLocations
    /\ recs' = Collect(upd.newLocations, recs)
    /\ published' = Deref(upd.newLocations, recs)
    /\ upd' = [upd EXCEPT !.pc = assigned, !.newLocations = NoLocations]
    /\ out' = NoEvent
    /\ UNCHANGED <<database, databaseFile, databaseLock, syncer, http,
                   now, maxCacheSize, cache, CacheLen, domainLocationsLock,
                   sel, sweep, dnsCache,
                   dnsSweepNext>>

UnlockMutant(lock) == lock
\* Unlock() of a sync.RWMutex
Unlock(lock) == [lock EXCEPT !.writer = FALSE]

\* g.domainLocationsLock.Unlock(); the updater goes on with next.
Registry_Unlock(assigned, next) ==
    /\ upd.pc = assigned
    /\ domainLocationsLock' = Unlock(domainLocationsLock)
    /\ upd' = [upd EXCEPT !.pc = next, !.idx = 1, !.status = NoStatuses,
                           !.lookup = NoLookups]
    /\ out' = NoEvent
    /\ UNCHANGED <<database, databaseFile, databaseLock, syncer, http,
                   now, maxCacheSize, cache, CacheLen, recs, domainLocations,
                   published, sel, sweep, dnsCache,
                   dnsSweepNext>>

updateDomainLocations ==
    \/ \E answer \in UNION {LookupIP(d) : d \in Domains} : Locations_Resolve(answer)
    \/ Registry_Lock("loc", "locLocked")
    \/ Registry_Assign("locLocked", "locAssigned")
    \/ Registry_Unlock("locAssigned", "health")

\* ------------------------------------------------- updateDomainHealthState
\* Mutant: > 200 in place of >= 200.
IsAliveStatusMutant(StatusCode) == StatusCode > 200 /\ StatusCode < 400

\* if resp.StatusCode >= 200 && resp.StatusCode < 400
IsAliveStatus(StatusCode) == StatusCode >= 200 /\ StatusCode < 400

\* One iteration of the loop of updateDomainHealthState. The pointer is read
\* under the read lock; a domain that is not in the map is skipped; for the
\* others the probe result is written into the record the pointer refers to,
\* which is the record of the published map, and the pointer goes into
\* newLocations; status keeps what the probe answered, for the history. Only this goroutine assigns g.domainLocations, so the read
\* of the pointer, the probe and the write are one step.
Health_Probe(status) ==
    /\ upd.pc = "health"
    /\ upd.idx <= Len(hostingDomains)
    /\ ~domainLocationsLock.writer
    /\ LET domain == RangeDomain(upd.idx)
           location == domainLocations[domain]
       IN  IF location = Nil
           THEN /\ upd' = [upd EXCEPT !.idx = @ + 1]
                /\ recs' = recs
           ELSE /\ upd' = [upd EXCEPT !.idx = @ + 1, !.newLocations[domain] = location,
                                       !.status[domain] = status]
                /\ recs' = [recs EXCEPT ![location].IsAlive =
                                IF status = 0 THEN FALSE ELSE IsAliveStatus(status)]
    /\ out' = NoEvent
    /\ UNCHANGED <<database, databaseFile, databaseLock, syncer, http,
                   now, maxCacheSize, cache, CacheLen, domainLocations,
                   domainLocationsLock, published, sel, sweep, dnsCache,
                   dnsSweepNext>>

updateDomainHealthState ==
    \/ \E status \in ProbeOutcomes : Health_Probe(status)
    \/ Registry_Lock("health", "healthLocked")
    \/ Registry_Assign("healthLocked", "healthAssigned")
    \/ Registry_Unlock("healthAssigned", "idle")

\* ------------------------------------------------------- NewGeoIpDatabase
\* The registry NewGeoIpDatabase leaves behind: updateDomainLocations has run
\* once, so each configured domain is either absent or present and alive,
\* with the record of domain number i in heap cell i.
\* Configuration of the syncer as Provision starts it: a remote source and a
\* refresh period of one day.
databaseUri == "https://example.com/geo.mmdb"
periodicDbDownloadDays == 1
\* The syncer goroutine waiting for its ticker; day counts the ticks so far,
\* uri and days are g.databaseUri and g.periodicDbDownloadDays.
IdleSyncer ==
    [pc |-> "idle", day |-> 0, before |-> "v1", opened |-> "",
     uri |-> databaseUri, days |-> periodicDbDownloadDays]
\* No request is being served.
IdleRequest == [pc |-> "idle", Path |-> "", Host |-> "", RemoteAddr |-> "",
                CacheTTLSeconds |-> 0]

InitialLocations ==
    {m \in [RegistryKeys -> RecIds \cup {Nil}] :
        /\ \A i \in 1..Len(hostingDomains) : m[hostingDomains[i]] \in {Nil, i}
        /\ m[OtherDomain] = Nil}

InitialRecs(m) ==
    [r \in RecIds |->
        IF r <= Len(hostingDomains) /\ m[hostingDomains[Min2(r, Len(hostingDomains))]] = r
        THEN [Lat |-> getIPLatLong(HostIP(hostingDomains[r])).Lat,
              Long |-> getIPLatLong(HostIP(hostingDomains[r])).Long,
              IsAlive |-> TRUE]
        ELSE DefaultRec]

\* Everything NewGeoIpDatabase, NewDnsResolver and Provision set up, but for
\* the geo database and its syncer.
EngineConstructed ==
    /\ now = 0
    /\ databaseLock = [readers |-> {}, writer |-> FALSE]
    /\ http = IdleRequest
    /\ maxCacheSize \in 0..MaxCap
    /\ cache = [ip \in EngineIPs |-> NoEntry]
    /\ CacheLen = 0
    /\ domainLocations \in InitialLocations
    /\ recs = InitialRecs(domainLocations)
    /\ published = Deref(domainLocations, recs)
    /\ domainLocationsLock = [readers |-> {}, writer |-> FALSE]
    /\ sel = [c \in Callers |-> IdleSel]
    /\ upd = [pc |-> "idle", idx |-> 1, newLocations |-> NoLocations,
              status |-> NoStatuses, lookup |-> NoLookups]
    /\ sweep = [pc |-> "idle", visited |-> {}, must |-> {}, key |-> "",
                next |-> SweepIntervalSec]
    /\ dnsCache = [h \in Domains |-> NoEntry]
    /\ dnsSweepNext = SweepIntervalSec

\* The same with the geo database: the file at the path holds the snapshot v1
\* and was loaded by the syncDatabase call of NewGeoIpDatabase.
Constructed ==
    /\ database = "v1"
    /\ databaseFile = [content |-> "v1", modDay |-> 0, bySync |-> FALSE]
    /\ syncer = IdleSyncer
    /\ EngineConstructed

Init == Constructed /\ out = NoEvent

\* ------------------------------------------------------------ DnsResolver
\* What Resolve hands back: the address (or "" with an error), the number of
\* DNS lookups the call made and the addresses LookupIP gave it.
ResolveReturn(hostname, cacheTTLSec, ip, err, hostIps, lookups) ==
    [op |-> "resolve", hostname |-> hostname, ttl |-> cacheTTLSec, ip |-> ip,
     err |-> err, hostIps |-> hostIps, lookups |-> lookups]

DnsCacheEntryMutant(ips, cacheTTLSec) ==
    [Ips |-> <<ips[1]>>, InsertTime |-> now, TTLSec |-> cacheTTLSec]
\* DnsCacheEntry{Ips: ips, InsertTime: time.Now().UTC(), TTLSec: cacheTTLSec}
DnsCacheEntry(ips, cacheTTLSec) ==
    [Ips |-> ips, InsertTime |-> now, TTLSec |-> cacheTTLSec]

\* DnsResolver.Resolve(hostname, cacheTTLSec), where answer is what LookupIP
\* gives if it is called. netip.AddrFromSlice cannot fail on the 4- or
\* 16-byte addresses LookupIP returns.
Resolve(hostname, cacheTTLSec, answer) ==
    /\ answer \in LookupIP(hostname)
    /\ IF cacheTTLSec < MinTTLSec
       THEN /\ out' = ResolveReturn(hostname, cacheTTLSec, "", "ttl", <<>>, 0)
            /\ dnsCache' = dnsCache
       ELSE IF dnsCache[hostname] # NoEntry
       THEN /\ out' = ResolveReturn(hostname, cacheTTLSec, dnsCache[hostname].Ips[1], "",
                                 <<>>, 0)
            /\ dnsCache' = dnsCache
       ELSE IF answer.err
       THEN /\ out' = ResolveReturn(hostname, cacheTTLSec, "", "lookup", <<>>, 1)
            /\ dnsCache' = dnsCache
       ELSE IF Len(answer.ips) = 0
       THEN /\ out' = ResolveReturn(hostname, cacheTTLSec, "", "noips", <<>>, 1)
            /\ dnsCache' = dnsCache
       ELSE /\ out' = ResolveReturn(hostname, cacheTTLSec, answer.ips[1], "",
                                 answer.ips, 1)
            /\ dnsCache' = [dnsCache EXCEPT ![hostname] =
                               DnsCacheEntry(answer.ips, cacheTTLSec)]
    /\ UNCHANGED <<database, databaseFile, databaseLock, syncer, http,
                   now, maxCacheSize, cache, CacheLen, recs, domainLocations,
                   domainLocationsLock, published, sel, upd, sweep, dnsSweepNext>>

\* DnsResolver.StartCacheCleaner: on its tick, Range deletes every entry
\* whose age exceeds its TTL.
StartCacheCleaner ==
    /\ now = dnsSweepNext
    /\ dnsCache' = [h \in Domains |->
                       IF dnsCache[h] # NoEntry /\ Expired(dnsCache[h])
                       THEN NoEntry ELSE dnsCache[h]]
    /\ dnsSweepNext' = dnsSweepNext + SweepIntervalSec
    /\ out' = NoEvent
    /\ UNCHANGED <<database, databaseFile, databaseLock, syncer, http,
                   now, maxCacheSize, cache, CacheLen, recs, domainLocations,
                   domainLocationsLock, published, sel, upd, sweep>>

\* Time passes, up to the next tick of the DNS cache cleaner.
TickDns ==
    /\ now < dnsSweepNext
    /\ now < MaxTime
    /\ now' = Min2(Min2(now + TimeStep, dnsSweepNext), MaxTime)
    /\ out' = NoEvent
    /\ UNCHANGED <<database, databaseFile, databaseLock, syncer, http,
                   maxCacheSize, cache, CacheLen, recs, domainLocations,
                   domainLocationsLock, published, sel, upd, sweep, dnsCache,
                   dnsSweepNext>>

\* ------------------------------------------------------------ syncDatabase
\* What the remote source can deliver with status 200: the newer snapshot,
\* or bytes that are not a database.
Served == {"v2", "corrupt"}

\* What syncDatabase hands back to the syncer loop.
SyncReturn(err) == [op |-> "sync", err |-> err, day |-> syncer.day]

\* time.Since(ModTime).Hours()/24, rounded down, at the current tick: the
\* file the syncer wrote during the tick of modDay is a little younger than
\* the whole number of days since then.
AgeDays(file, day) ==
    IF file.bySync /\ day > file.modDay THEN day - file.modDay - 1
    ELSE day - file.modDay

\* shouldDownload as syncDatabase computes it.
ShouldDownload(file, day, uri, days) ==
    LET stale == \/ file.content = "absent"
                 \/ file.content = "dir"
                 \/ AgeDays(file, day) >= days
    IN  IF uri = "" THEN FALSE
        ELSE IF days = 0 THEN FALSE
        ELSE stale

\* Mutant: every file can be opened.
OpenMutant(file) == [err |-> FALSE, db |-> file.content]

\* maxminddb.Open(g.databasePath): a Reader over the snapshot in the file, or
\* an error when the file is not a database.
Open(file) ==
    IF file.content \in Snapshots THEN [err |-> FALSE, db |-> file.content]
    ELSE [err |-> TRUE, db |-> ""]

\* if m.MmdbUri != "" && m.MmdbDownloadPeriodDays > 0
SyncerStarted(uri, days) == uri # "" /\ days > 0

\* The ticker of StartPeriodicGeoDBSyncer fires: syncDatabase is called.  The
\* goroutine runs for an engine NewGeoIpDatabase returned, so for one whose
\* database is loaded.
Sync_Tick ==
    /\ syncer.pc = "idle"
    /\ database # ""
    /\ SyncerStarted(syncer.uri, syncer.days)
    /\ syncer.day < MaxDays
    /\ syncer' = [syncer EXCEPT !.pc = "stat", !.day = @ + 1, !.before = database]
    /\ out' = NoEvent
    /\ UNCHANGED <<database, databaseFile, databaseLock>>
    /\ UNCHANGED <<now, maxCacheSize, cache, CacheLen, recs, domainLocations,
                   domainLocationsLock, published, sel, upd, sweep, dnsCache,
                   dnsSweepNext, http>>

\* os.Stat and the decision to download.
Sync_Stat ==
    /\ syncer.pc = "stat"
    /\ syncer' = [syncer EXCEPT !.pc =
                     IF ShouldDownload(databaseFile, syncer.day, syncer.uri,
                                       syncer.days)
                     THEN "get" ELSE "open"]
    /\ out' = NoEvent
    /\ UNCHANGED <<database, databaseFile, databaseLock>>
    /\ UNCHANGED <<now, maxCacheSize, cache, CacheLen, recs, domainLocations,
                   domainLocationsLock, published, sel, upd, sweep, dnsCache,
                   dnsSweepNext, http>>

\* downloadGeoDB up to os.Create: client.Get fails, the status is not 200,
\* gzip.NewReader fails, or the body is ready to be copied.
Download_Get(outcome) ==
    /\ syncer.pc = "get"
    /\ IF outcome = "ok"
       THEN /\ syncer' = [syncer EXCEPT !.pc = "create"]
            /\ out' = NoEvent
       ELSE /\ syncer' = [syncer EXCEPT !.pc = "idle"]
            /\ out' = SyncReturn(outcome)
    /\ UNCHANGED <<database, databaseFile, databaseLock>>
    /\ UNCHANGED <<now, maxCacheSize, cache, CacheLen, recs, domainLocations,
                   domainLocationsLock, published, sel, upd, sweep, dnsCache,
                   dnsSweepNext, http>>

\* os.Create(filepath): the file at the path is created or truncated.
Download_Create(ok) ==
    /\ syncer.pc = "create"
    /\ IF ok
       THEN /\ databaseFile' = [content |-> "empty", modDay |-> syncer.day,
                                bySync |-> TRUE]
            /\ syncer' = [syncer EXCEPT !.pc = "copy"]
            /\ out' = NoEvent
       ELSE /\ databaseFile' = databaseFile
            /\ syncer' = [syncer EXCEPT !.pc = "idle"]
            /\ out' = SyncReturn("create")
    /\ UNCHANGED <<database, databaseLock>>
    /\ UNCHANGED <<now, maxCacheSize, cache, CacheLen, recs, domainLocations,
                   domainLocationsLock, published, sel, upd, sweep, dnsCache,
                   dnsSweepNext, http>>

\* io.Copy(out, reader): the body is written to the file, whole or, when the
\* copy fails, in part.
Download_Copy(ok, body) ==
    /\ syncer.pc = "copy"
    /\ body \in Served
    /\ IF ok
       THEN /\ databaseFile' = [databaseFile EXCEPT !.content = body]
            /\ syncer' = [syncer EXCEPT !.pc = "open"]
            /\ out' = NoEvent
       ELSE /\ databaseFile' = [databaseFile EXCEPT !.content = "partial"]
            /\ syncer' = [syncer EXCEPT !.pc = "idle"]
            /\ out' = SyncReturn("write")
    /\ UNCHANGED <<database, databaseLock>>
    /\ UNCHANGED <<now, maxCacheSize, cache, CacheLen, recs, domainLocations,
                   domainLocationsLock, published, sel, upd, sweep, dnsCache,
                   dnsSweepNext, http>>

\* maxminddb.Open: on an error syncDatabase returns; g.database is untouched.
Sync_Open ==
    /\ syncer.pc = "open"
    /\ IF Open(databaseFile).err
       THEN /\ syncer' = [syncer EXCEPT !.pc = "idle"]
            /\ out' = SyncReturn("load")
       ELSE /\ syncer' = [syncer EXCEPT !.pc = "lock", !.opened = Open(databaseFile).db]
            /\ out' = NoEvent
    /\ UNCHANGED <<database, databaseFile, databaseLock>>
    /\ UNCHANGED <<now, maxCacheSize, cache, CacheLen, recs, domainLocations,
                   domainLocationsLock, published, sel, upd, sweep, dnsCache,
                   dnsSweepNext, http>>

\* g.databaseLock.Lock()
Sync_Lock ==
    /\ syncer.pc = "lock"
    /\ databaseLock.readers = {}
    /\ ~databaseLock.writer
    /\ databaseLock' = [databaseLock EXCEPT !.writer = TRUE]
    /\ syncer' = [syncer EXCEPT !.pc = "assign"]
    /\ out' = NoEvent
    /\ UNCHANGED <<database, databaseFile>>
    /\ UNCHANGED <<now, maxCacheSize, cache, CacheLen, recs, domainLocations,
                   domainLocationsLock, published, sel, upd, sweep, dnsCache,
                   dnsSweepNext, http>>

\* g.database = db
Sync_Assign ==
    /\ syncer.pc = "assign"
    /\ database' = syncer.opened
    /\ syncer' = [syncer EXCEPT !.pc = "unlock", !.opened = ""]
    /\ out' = NoEvent
    /\ UNCHANGED <<databaseFile, databaseLock>>
    /\ UNCHANGED <<now, maxCacheSize, cache, CacheLen, recs, domainLocations,
                   domainLocationsLock, published, sel, upd, sweep, dnsCache,
                   dnsSweepNext, http>>

\* g.databaseLock.Unlock(); return nil
Sync_Unlock ==
    /\ syncer.pc = "unlock"
    /\ databaseLock' = Unlock(databaseLock)
    /\ syncer' = [syncer EXCEPT !.pc = "idle"]
    /\ out' = SyncReturn("")
    /\ UNCHANGED <<database, databaseFile>>
    /\ UNCHANGED <<now, maxCacheSize, cache, CacheLen, recs, domainLocations,
                   domainLocationsLock, published, sel, upd, sweep, dnsCache,
                   dnsSweepNext, http>>

syncDatabase ==
    \/ Sync_Stat
    \/ \E outcome \in {"get", "status", "gzip", "ok"} : Download_Get(outcome)
    \/ \E ok \in BOOLEAN : Download_Create(ok)
    \/ \E ok \in BOOLEAN, body \in Served : Download_Copy(ok, body)
    \/ Sync_Open
    \/ Sync_Lock
    \/ Sync_Assign
    \/ Sync_Unlock

StartPeriodicGeoDBSyncer ==
    \/ Sync_Tick
    \/ syncDatabase

\* ------------------------------------------------- calls of getIPLatLong
\* What getIPLatLong hands back: the location, or NoEntry with an error.
LocateReturn(ip, location) ==
    [op |-> "locate", ip |-> ip, location |-> location, err |-> location = NoEntry]

\* g.databaseLock.RLock() of a call of getIPLatLong for ip; the calls in
\* progress are named by their address.
Locate_RLock(ip) ==
    /\ ip \notin databaseLock.readers
    /\ ~databaseLock.writer
    /\ databaseLock' = [databaseLock EXCEPT !.readers = @ \cup {ip}]
    /\ out' = NoEvent
    /\ UNCHANGED <<database, databaseFile, syncer>>
    /\ UNCHANGED <<now, maxCacheSize, cache, CacheLen, recs, domainLocations,
                   domainLocationsLock, published, sel, upd, sweep, dnsCache,
                   dnsSweepNext, http>>

\* The lookup, the return and the deferred RUnlock.
Locate_Return(ip) ==
    /\ ip \in databaseLock.readers
    /\ databaseLock' = [databaseLock EXCEPT !.readers = @ \ {ip}]
    /\ out' = LocateReturn(ip, getIPLatLong(ip))
    /\ UNCHANGED <<database, databaseFile, syncer>>
    /\ UNCHANGED <<now, maxCacheSize, cache, CacheLen, recs, domainLocations,
                   domainLocationsLock, published, sel, upd, sweep, dnsCache,
                   dnsSweepNext, http>>

\* ---------------------------------------------------- Middleware.ServeHTTP
\* m.HealthUri and m.DomainNames of the configuration.
HealthUri == "/ping"
DomainNames == Domains
\* r.RemoteAddr of the requests: the IPv4 client addresses, a public and a
\* private IPv6 address, and an address with a port, which netip.ParseAddr
\* does not parse.
PrivateIPv6 == "fd00::1"
RemoteAddrs == ClientIPs \cup {PublicIPv6, PrivateIPv6, "10.0.0.1:4711"}

\* netip.ParseAddr(r.RemoteAddr)
ParseAddr(remoteAddr) ==
    IF remoteAddr \in ClientIPs \cup {PublicIPv6, PrivateIPv6}
    THEN [err |-> FALSE, addr |-> remoteAddr]
    ELSE [err |-> TRUE, addr |-> ""]
\* clientIP.Is6() and clientIP.IsPrivate(): 10.0.0.0/8 and fc00::/7 are
\* private.
Is6(addr) == addr \in {PublicIPv6, PrivateIPv6}
IsPrivate(addr) == addr \in ClientIPs \cup {PrivateIPv6}

\* if clientIP.Is6() && clientIP.IsPrivate()
SkipRedirectCheck(clientIP) == Is6(clientIP) /\ IsPrivate(clientIP)

\* Mutant: the error of the engine is ignored.
EngineFailedMutant(result) == FALSE

\* if err != nil, for the return of GetDomainWithSmallestGeoDistance
EngineFailed(result) == result.err # ""

\* What ServeHTTP has done when it returns: the number of calls of the
\* selection engine, of http.Redirect and of next.ServeHTTP, the Location of
\* the redirect and the error of the engine.
ServeReturn(r, engineCalls, engineErr, redirects, location, nexts) ==
    [op |-> "serve", Path |-> r.Path, Host |-> r.Host, RemoteAddr |-> r.RemoteAddr,
     engineCalls |-> engineCalls, engineErr |-> engineErr, redirects |-> redirects,
     location |-> location, nexts |-> nexts]

\* ServeHTTP up to the call of the engine: the health path, a host that is
\* not configured, a remote address that does not parse and a private IPv6
\* address go to the next handler at once.
Serve_Begin(r) ==
    /\ http.pc = "idle"
    /\ sel["c1"].pc = "idle"
    /\ LET clientIP == ParseAddr(r.RemoteAddr)
           passOn == \/ r.Path = HealthUri
                     \/ r.Host \notin DomainNames
                     \/ clientIP.err
                     \/ SkipRedirectCheck(clientIP.addr)
       IN  IF passOn
           THEN /\ out' = ServeReturn(r, 0, "", 0, "", 1)
                /\ http' = IdleRequest
           ELSE /\ out' = NoEvent
                /\ http' = [r EXCEPT !.pc = "select"]
    /\ UNCHANGED <<now, maxCacheSize, cache, CacheLen, recs, domainLocations,
                   domainLocationsLock, published, sel, upd, sweep, dnsCache,
                   dnsSweepNext, database, databaseFile, databaseLock, syncer>>

\* m.GeoIP.GetDomainWithSmallestGeoDistance(&clientIP, m.CacheTTLSeconds):
\* the first step of the call, made by the goroutine of the request.
Serve_Call ==
    /\ http.pc = "select"
    /\ sel["c1"].pc = "idle"
    /\ out.op # "select"
    /\ GetDomain_Call("c1", ParseAddr(http.RemoteAddr).addr, http.CacheTTLSeconds)

\* The engine has returned: on an error the request goes to the next
\* handler; otherwise a redirect is written when the domain is not the
\* host of the request, and then next.ServeHTTP is returned.
Serve_Finish ==
    /\ http.pc = "select"
    /\ out.op = "select"
    /\ LET redirectDomain == out.domain
       IN  IF EngineFailed(out)
           THEN out' = ServeReturn(http, 1, out.err, 0, "", 1)
           ELSE IF redirectDomain # http.Host
                THEN out' = ServeReturn(http, 1, out.err, 1, redirectDomain, 1)
                ELSE out' = ServeReturn(http, 1, out.err, 0, "", 1)
    /\ http' = IdleRequest
    /\ UNCHANGED <<now, maxCacheSize, cache, CacheLen, recs, domainLocations,
                   domainLocationsLock, published, sel, upd, sweep, dnsCache,
                   dnsSweepNext, database, databaseFile, databaseLock, syncer>>

ServeHTTP ==
    \/ \E Path \in {"/", HealthUri}, Host \in Domains \cup {"other.example.net"},
          RemoteAddr \in RemoteAddrs,
          CacheTTLSeconds \in TTLs :
          Serve_Begin([pc |-> "idle", Path |-> Path, Host |-> Host,
                       RemoteAddr |-> RemoteAddr,
                       CacheTTLSeconds |-> CacheTTLSeconds])
    \/ Serve_Call
    \/ (http.pc = "select" /\ GetDomain_Steps("c1"))
    \/ Serve_Finish

\* ------------------------------------------------ calls of HaversineDistance
\* The points of the test of HaversineDistance and the points with whole
\* multiples of 90 degrees as coordinates.
NewYork == <<407128, -740060>>
London == <<515074, -1278>>
Coordinates ==
    {<<Deg(lat), Deg(lon)>> : lat \in {-90, 0, 90}, lon \in {-180, -90, 0, 90, 180}}
        \cup {NewYork, London}

\* A call HaversineDistance(from, to) and its return value.
\* A call of HaversineDistance(from, to) that has not been evaluated yet.
DistanceCall(from, to) == [op |-> "haversine", from |-> from, to |-> to]

Distance(from, to) ==
    /\ out = DistanceCall(from, to)
    /\ out' = [op |-> "distance", from |-> from, to |-> to,
               km |-> HaversineDistance(from[1], from[2], to[1], to[2])]
    /\ UNCHANGED <<now, maxCacheSize, cache, CacheLen, recs, domainLocations,
                   domainLocationsLock, published, sel, upd, sweep, dnsCache,
                   dnsSweepNext, database, databaseFile, databaseLock, syncer, http>>

\* ------------------------- GetDomainWithSmallestGeoDistance, resolving
\* The variant of the engine that keeps no registry: a selection call
\* resolves every hosting domain through the DnsResolver, in one goroutine
\* per domain, and waits for the goroutines with a sync.WaitGroup.

\* getIPLatLong of this variant: City(ip) fails or the record has no data.
getIPLatLongCity(ip) ==
    IF MMDB(database, ip) \in {NotFound, Malformed} THEN NoEntry
    ELSE MMDB(database, ip)

\* The call up to the WaitGroup: the TTL test, cache.Load, getIPLatLong of the
\* client, then wg.Add(len(g.hostingDomains)) and, for every domain,
\* wg.Add(1) and the go statement.
Resolving_Call(c, clientIp, cacheTTLSec, hosting) ==
    /\ sel[c].pc = "idle"
    /\ LET s == [IdleSel EXCEPT !.ip = clientIp, !.ttl = cacheTTLSec]
       IN  IF ~TTLValid(cacheTTLSec)
           THEN /\ out' = SelReturn(c, s, "", "ttl", FALSE, 0)
                /\ sel' = sel
           ELSE IF CacheLoad(clientIp) # NoEntry
           THEN /\ out' = SelReturn(c, s, CacheLoad(clientIp).Domain, "", TRUE, 0)
                /\ sel' = sel
           ELSE IF getIPLatLongCity(clientIp) = NoEntry
           THEN /\ out' = SelReturn(c, [s EXCEPT !.geoLookups = 1], "", "lookup",
                                    FALSE, 0)
                /\ sel' = sel
           ELSE /\ out' = NoEvent
                /\ sel' = [sel EXCEPT ![c] =
                              [s EXCEPT !.pc = "wait", !.geoLookups = 1,
                                        !.clientLocation = getIPLatLongCity(clientIp),
                                        !.toVisit = {hosting[i] : i \in 1..Len(hosting)},
                                        !.wg = Len(hosting) + Len(hosting)]]
    /\ UNCHANGED <<database, databaseFile, databaseLock, syncer, http,
                   now, maxCacheSize, cache, CacheLen, recs, domainLocations,
                   domainLocationsLock, published, upd, sweep, dnsCache,
                   dnsSweepNext>>

\* The goroutine of domain d: DistanceFromClientIPtoDomainHost (Resolve with
\* a TTL of 600, getIPLatLong of the address, HaversineDistance), the send on
\* resultsChan and the deferred wg.Done().  answer is what LookupIP gives if
\* Resolve calls it.
DistanceFromClientIPtoDomainHost(c, d, answer) ==
    /\ sel[c].pc = "wait"
    /\ d \in sel[c].toVisit
    /\ answer \in LookupIP(d)
    /\ LET s       == sel[c]
           hit     == dnsCache[d] # NoEntry
           failed  == ~hit /\ (answer.err \/ Len(answer.ips) = 0)
           hostIp  == IF hit THEN dnsCache[d].Ips[1] ELSE answer.ips[1]
           located == ~failed /\ getIPLatLongCity(hostIp) # NoEntry
           result  == IF located
                      THEN [domain |-> d, err |-> FALSE,
                            distance |->
                               HaversineDistance(s.clientLocation.Lat,
                                                 s.clientLocation.Long,
                                                 getIPLatLongCity(hostIp).Lat,
                                                 getIPLatLongCity(hostIp).Long)]
                      ELSE [domain |-> d, err |-> TRUE, distance |-> 0]
       IN  /\ dnsCache' = IF hit \/ failed THEN dnsCache
                          ELSE [dnsCache EXCEPT ![d] = DnsCacheEntry(answer.ips, 600)]
           /\ sel' = [sel EXCEPT ![c].toVisit = @ \ {d},
                                 ![c].resultsChan = Append(@, result),
                                 ![c].wg = @ - 1]
    /\ out' = NoEvent
    /\ UNCHANGED <<database, databaseFile, databaseLock, syncer, http,
                   now, maxCacheSize, cache, CacheLen, recs, domainLocations,
                   domainLocationsLock, published, upd, sweep, dnsSweepNext>>

\* The best of the results received so far: the loop over resultsChan.
RECURSIVE BestResult(_, _)
BestResult(results, best) ==
    IF results = <<>> THEN best
    ELSE BestResult(Tail(results),
                    IF results[1].distance < best.distance THEN results[1] ELSE best)

\* wg.Wait() returns when the counter is 0.  Then close(resultsChan) and the
\* loop over the results: at the first result with an error the call returns
\* "" and err, the nil error of the client lookup; otherwise the capacity
\* test, the store of the best domain and its return.
Resolving_Wait(c) ==
    /\ sel[c].pc = "wait"
    /\ sel[c].wg = 0
    /\ LET s    == sel[c]
           best == BestResult(s.resultsChan,
                              [domain |-> "", err |-> FALSE, distance |-> MaxFloat64])
           done == [s EXCEPT !.bestDomain = best.domain, !.stored = CapacityOk]
       IN  IF \E i \in 1..Len(s.resultsChan) : s.resultsChan[i].err
           THEN /\ out' = SelReturn(c, s, "", "", FALSE, 0)
                /\ UNCHANGED <<cache, CacheLen>>
           ELSE /\ out' = SelReturn(c, done, best.domain, "", FALSE, 0)
                /\ IF CapacityOk
                   THEN /\ CacheLen' = CacheLen + 1
                        /\ cache' = [cache EXCEPT ![s.ip] = NewCacheEntry(done)]
                   ELSE UNCHANGED <<cache, CacheLen>>
    /\ sel' = [sel EXCEPT ![c] = IdleSel]
    /\ UNCHANGED <<database, databaseFile, databaseLock, syncer, http,
                   now, maxCacheSize, recs, domainLocations,
                   domainLocationsLock, published, upd, sweep, dnsCache,
                   dnsSweepNext>>

\* Every step of a selection call of caller c in this variant, on an engine
\* whose g.hostingDomains are the configured domains, or none.
GetDomainResolving(c) ==
    \/ \E clientIp \in ClientIPs, cacheTTLSec \in TTLs, hosting \in {hostingDomains, <<>>} :
          Resolving_Call(c, clientIp, cacheTTLSec, hosting)
    \/ \E d \in Domains : \E answer \in LookupIP(d) :
          DistanceFromClientIPtoDomainHost(c, d, answer)
    \/ Resolving_Wait(c)

\* ----------------------- GetDomainWithSmallestGeoDistance, locations only
\* The variant of the engine whose registry holds locations without a health
\* state: the whole call.  The range loop visits the keys in an order the Go
\* runtime chooses and keeps the first domain at the smallest distance;
\* bestDomain stays "" when the map is empty.  There is no test of
\* bestDomain before the capacity test and the return.
GetDomainLocated(c, clientIp, cacheTTLSec) ==
    /\ sel[c].pc = "idle"
    /\ domainLocationsLock.writer = FALSE
    /\ LET s == [IdleSel EXCEPT !.ip = clientIp, !.ttl = cacheTTLSec]
           clientLocation == getIPLatLongCity(clientIp)
           distance(d) == HaversineDistance(clientLocation.Lat, clientLocation.Long,
                                            recs[domainLocations[d]].Lat,
                                            recs[domainLocations[d]].Long)
           hosts == Registered(domainLocations)
           nearest == {d \in hosts : \A e \in hosts : ~Closer(distance(e), distance(d))}
       IN  IF ~TTLValid(cacheTTLSec)
           THEN /\ out' = SelReturn(c, s, "", "ttl", FALSE, 0)
                /\ UNCHANGED <<cache, CacheLen>>
           ELSE IF CacheLoad(clientIp) # NoEntry
           THEN /\ out' = SelReturn(c, s, CacheLoad(clientIp).Domain, "", TRUE, 0)
                /\ UNCHANGED <<cache, CacheLen>>
           ELSE IF clientLocation = NoEntry
           THEN /\ out' = SelReturn(c, [s EXCEPT !.geoLookups = 1], "", "lookup",
                                    FALSE, 0)
                /\ UNCHANGED <<cache, CacheLen>>
           ELSE \E bestDomain \in (IF hosts = {} THEN {""} ELSE nearest) :
                   LET done == [s EXCEPT !.geoLookups = 1, !.bestDomain = bestDomain,
                                         !.distCalcs = Cardinality(hosts),
                                         !.stored = CapacityOk]
                   IN  /\ out' = SelReturn(c, done, bestDomain, "", FALSE, 0)
                       /\ IF CapacityOk
                          THEN /\ CacheLen' = CacheLen + 1
                               /\ cache' = [cache EXCEPT ![clientIp] = NewCacheEntry(done)]
                          ELSE UNCHANGED <<cache, CacheLen>>
    /\ UNCHANGED <<database, databaseFile, databaseLock, syncer, http,
                   now, maxCacheSize, recs, domainLocations,
                   domainLocationsLock, published, sel, upd, sweep, dnsCache,
                   dnsSweepNext>>

\* ---------------------------------------------------------- specifications
\* The engine without the clock: the selection calls of one caller against
\* the location and health refreshes of the updater goroutine.
Next ==
    \/ GetDomainWithSmallestGeoDistance("c1")
    \/ updateDomainLocations
    \/ updateDomainHealthState
    \/ Updater_Tick

Spec == Init /\ [][Next]_vars

\* The decision cache under the clock: selection calls of every caller with
\* the TTL of 10 seconds against the sweeper goroutine, with the registry as
\* constructed.
NextCache ==
    \/ \E c \in Callers, clientIp \in ClientIPs :
          \/ GetDomain_CacheHit(c, clientIp, MinTTLSec)
          \/ GetDomain_CacheMiss(c, clientIp, MinTTLSec)
    \/ \E c \in Callers : GetDomain_Steps(c)
    \/ StartCacheCleanup
    \/ Tick

\* The registry does not change in this specification: construction resolved
\* every hosting domain, or none of them.
InitCache ==
    /\ Init
    /\ \/ \A d \in Domains : domainLocations[d] # Nil
       \/ \A d \in Domains : domainLocations[d] = Nil
SpecCache == InitCache /\ [][NextCache]_vars

\* As SpecCache, with a single caller: selection calls never overlap.
NextSeq ==
    \/ GetDomainWithSmallestGeoDistance("c1")
    \/ StartCacheCleanup
    \/ Tick

SpecSeq == Init /\ [][NextSeq]_vars

\* The two entry points that take a TTL: the selection calls of one caller
\* and Resolve calls.
NextResolve ==
    \/ GetDomainWithSmallestGeoDistance("c1")
    \/ \E hostname \in Domains, cacheTTLSec \in TTLs :
          \E answer \in LookupIP(hostname) : Resolve(hostname, cacheTTLSec, answer)

SpecResolve == Init /\ [][NextResolve]_vars

\* The DNS cache under the clock: Resolve calls against the cache cleaner.
NextDns ==
    \/ \E hostname \in Domains, cacheTTLSec \in TTLs :
          \E answer \in LookupIP(hostname) : Resolve(hostname, cacheTTLSec, answer)
    \/ StartCacheCleaner
    \/ TickDns

SpecDns == Init /\ [][NextDns]_vars

\* The geo database: the periodic syncer against calls of getIPLatLong.
NextSync ==
    \/ StartPeriodicGeoDBSyncer
    \/ \E ip \in EngineIPs \cup {"192.0.2.1", "192.0.2.2", "203.0.113.5"} :
          Locate_RLock(ip) \/ Locate_Return(ip)

SpecSync == Init /\ [][NextSync]_vars

\* The middleware: requests served one after the other, each calling the
\* engine, with the registry as constructed.
NextHttp == ServeHTTP

SpecHttp == Init /\ [][NextHttp]_vars

\* The two refreshing goroutines side by side: the location and health
\* updater and the periodic database syncer.
NextRefresh ==
    \/ updateDomainLocations
    \/ updateDomainHealthState
    \/ Updater_Tick
    \/ StartPeriodicGeoDBSyncer

SpecRefresh == Init /\ [][NextRefresh]_vars

\* Every goroutine of one engine side by side: two callers of the selection
\* call, the location and health updater, the cache sweeper under the clock,
\* and the periodic database syncer.  Caller c1 asks for a client the
\* database locates, so its calls go on to the registry; caller c2 asks for
\* one whose record cannot be decoded, so its calls end in getIPLatLong.  A
\* lookup of the updater answers the host address and a probe fails, so the
\* registry is all alive after a location refresh and all down after a health
\* refresh; a download writes the snapshot the source serves.
NextAll ==
    \/ GetDomain_CacheHit("c1", "10.0.0.1", MinTTLSec)
    \/ GetDomain_CacheMiss("c1", "10.0.0.1", MinTTLSec)
    \/ GetDomain_CacheMiss("c2", "10.0.0.9", MinTTLSec)
    \/ \E c \in Callers : GetDomain_Steps(c)
    \/ Updater_Tick
    \/ \E d \in Domains : Locations_Resolve([err |-> FALSE, ips |-> <<HostIP(d)>>])
    \/ Registry_Lock("loc", "locLocked")
    \/ Registry_Assign("locLocked", "locAssigned")
    \/ Registry_Unlock("locAssigned", "health")
    \/ Health_Probe(0)
    \/ Registry_Lock("health", "healthLocked")
    \/ Registry_Assign("healthLocked", "healthAssigned")
    \/ Registry_Unlock("healthAssigned", "idle")
    \/ StartCacheCleanup
    \/ Tick
    \/ Sync_Tick
    \/ Sync_Stat
    \/ Download_Get("ok")
    \/ Download_Create(TRUE)
    \/ Download_Copy(TRUE, "v2")
    \/ Sync_Open
    \/ Sync_Lock
    \/ Sync_Assign
    \/ Sync_Unlock

SpecAll == InitCache /\ [][NextAll]_vars

\* Values of mmdb_uri and mmdb_download_period_days that reach
\* NewGeoIpDatabase: the period is parsed by strconv.Atoi and 0 stands for
\* the default only in Provision.
\* What can be at mmdb_path when the process starts: nothing, a directory,
\* or a database written some days ago.
StartFiles ==
    {[content |-> c, modDay |-> 0, bySync |-> FALSE] : c \in {"absent", "dir"}}
        \cup {[content |-> "v1", modDay |-> 0 - age, bySync |-> FALSE] : age \in 0..2}

\* The syncDatabase call of NewGeoIpDatabase, for every configuration and
\* file, and the periodic syncer after it.
InitConstruct ==
    /\ EngineConstructed
    /\ database = ""
    /\ databaseFile \in StartFiles
    /\ syncer \in {[IdleSyncer EXCEPT !.pc = "stat", !.before = "",
                                      !.uri = uri, !.days = days] :
                       uri \in {"", databaseUri}, days \in {-1, 0, 1, 2}}
    /\ out = NoEvent

NextConstruct == StartPeriodicGeoDBSyncer

SpecConstruct == InitConstruct /\ [][NextConstruct]_vars

\* The variant that resolves the domains itself: the selection calls of one
\* caller.  In the fair specification a call that can take a step, or one of
\* its goroutines, takes it.
NextResolving == GetDomainResolving("c1")

FairResolving == Init /\ [][NextResolving]_vars /\ WF_vars(NextResolving)

\* The variant with locations only: selection calls, one after the other,
\* against the registry as constructed.
NextLocated ==
    \E c \in Callers, clientIp \in ClientIPs, cacheTTLSec \in TTLs :
        GetDomainLocated(c, clientIp, cacheTTLSec)

SpecLocated == Init /\ [][NextLocated]_vars

\* Calls of HaversineDistance for every pair of points.
NextMath == \E from \in Coordinates, to \in Coordinates : Distance(from, to)

InitMath ==
    /\ Constructed
    /\ out \in {DistanceCall(from, to) : from \in Coordinates, to \in Coordinates}
SpecMath == InitMath /\ [][NextMath]_vars


\* ------------------------------------------------------------- properties
TypeOK ==
    /\ now \in 0..MaxTime
    /\ maxCacheSize \in 0..MaxCap
    /\ \A ip \in ClientIPs :
          cache[ip] # NoEntry =>
             /\ cache[ip].Domain \in Domains
             /\ cache[ip].InsertTime \in 0..MaxTime
    /\ CacheLen \in 0..(MaxCap + Cardinality(Callers))
    /\ \A d \in Domains : domainLocations[d] \in RecIds \cup {Nil}
    /\ domainLocationsLock.readers \subseteq Callers
    /\ \A c \in Callers :
          sel[c].pc \in {"idle", "locate", "rlock", "range", "add", "store", "ret"}
    /\ upd.pc \in {"idle", "loc", "locLocked", "locAssigned", "health",
                   "healthLocked", "healthAssigned"}
    /\ sweep.pc \in {"idle", "range", "delete", "dec"}

\* The selection call that has just returned ran its range loop.
RangedReturn == out.op = "select" /\ ~out.hit /\ out.err \in {"", "alldown"}
\* The domains the range loop of the returned call read as alive, and all
\* the domains it read.
ObservedAlive == {d \in Domains : out.obs[d] # NoEntry /\ out.obs[d].IsAlive}
ObservedAll == {d \in Domains : out.obs[d] # NoEntry}
\* The distance from the client of the returned call to domain d, from the
\* location the loop read.
ObservedDistance(d) ==
    HaversineDistance(getIPLatLong(out.ip).Lat, getIPLatLong(out.ip).Long,
                      out.obs[d].Lat, out.obs[d].Long)
\* The client addresses the geo database locates.
LocatableIPs == {ip \in ClientIPs : getIPLatLong(ip) # NoEntry}

\* C1: a selection that returns a domain on a cache miss returns a domain
\* that its range loop read as alive, and no domain the loop read as alive is
\* strictly nearer to the client.
C1_NearestAlive ==
    (RangedReturn /\ out.err = "") =>
        /\ out.domain \in ObservedAlive
        /\ \A d \in ObservedAlive : ObservedDistance(out.domain) <= ObservedDistance(d)

\* C1 witness: a miss for the client at (0,0) that read both domains alive,
\* at distances 0 and half the circumference, and returned the nearer one.
C1_Witness ==
    /\ RangedReturn /\ out.err = ""
    /\ out.ip = "10.0.0.1"
    /\ ObservedAlive = Domains
    /\ ObservedDistance("eu.example.com") < ObservedDistance("us.example.com")
    /\ out.domain = "eu.example.com"

\* C4: a selection on a cache miss whose range loop read no domain as alive
\* returns the all-domains-down error, and the count in the error is the
\* number of domains the loop went through.
C4_AllDomainsDown ==
    (RangedReturn /\ ObservedAlive = {}) =>
        /\ out.err = "alldown"
        /\ out.domain = ""
        /\ out.count = Cardinality(ObservedAll)

\* C4 witness: both configured domains are registered and were read as
\* not-alive; the error names 2.
C4_Witness ==
    /\ RangedReturn /\ out.err = "alldown"
    /\ ObservedAll = Domains
    /\ ObservedAlive = {}
    /\ out.count = 2

\* C5: a selection on a cache miss whose range loop read exactly one domain
\* as alive returns that domain.
C5_OnlyAliveDomain ==
    \A d \in Domains :
        (RangedReturn /\ ObservedAlive = {d}) => (out.err = "" /\ out.domain = d)

\* C5 witness: the only alive domain is returned although the not-alive one
\* is strictly nearer to the client.
C5_Witness ==
    /\ RangedReturn /\ out.err = ""
    /\ ObservedAll = Domains
    /\ ObservedAlive = {"us.example.com"}
    /\ ObservedDistance("eu.example.com") < ObservedDistance("us.example.com")
    /\ out.domain = "us.example.com"


\* C10: the record values the range loop of a selection call read, for every
\* domain, are the values of the map as a completed refresh published it.
C10_ReadsPublishedMap ==
    RangedReturn => \A d \in Domains : out.obs[d] = published[d]

\* Everything except the return value out.
state == <<now, maxCacheSize, cache, CacheLen, recs, domainLocations,
           domainLocationsLock, published, sel, upd, sweep, dnsCache,
           dnsSweepNext, database, databaseFile, databaseLock, syncer, http>>

\* C2: a selection call or a Resolve call with a TTL below 10 returns an
\* error and nothing else: it is not answered from the cache, makes no geo or
\* DNS lookup and changes no state (no cache entry, CacheLen unchanged); no
\* call in progress and no cache entry carries a TTL below 10.
C2_LowTTLStep ==
    /\ (out'.op = "select" /\ out'.ttl < MinTTLSec) =>
          /\ out'.err = "ttl" /\ out'.domain = ""
          /\ ~out'.hit /\ out'.geoLookups = 0 /\ out'.distCalcs = 0
          /\ UNCHANGED state
    /\ (out'.op = "resolve" /\ out'.ttl < MinTTLSec) =>
          /\ out'.err = "ttl" /\ out'.ip = ""
          /\ out'.lookups = 0
          /\ UNCHANGED state

C2_NoLowTTLInside ==
    /\ \A c \in Callers : sel[c].pc # "idle" => sel[c].ttl >= MinTTLSec
    /\ \A ip \in ClientIPs : cache[ip] # NoEntry => cache[ip].TTLSec >= MinTTLSec
    /\ \A h \in Domains : dnsCache[h] # NoEntry => dnsCache[h].TTLSec >= MinTTLSec

C2_LowTTLRejected == [][C2_LowTTLStep]_vars /\ []C2_NoLowTTLInside

\* C2 witness: a selection call with TTL 5 was rejected although its client
\* IP is cached, with an entry in the DNS cache as well.
C2_Witness ==
    /\ out.op = "select" /\ out.ttl < MinTTLSec /\ out.err = "ttl"
    /\ cache[out.ip] # NoEntry
    /\ \E h \in Domains : dnsCache[h] # NoEntry


\* The step is the start of a selection call for clientIp with a valid TTL.
SecondCall(clientIp) ==
    \E c \in Callers, cacheTTLSec \in TTLs :
        /\ TTLValid(cacheTTLSec)
        /\ \/ GetDomain_CacheHit(c, clientIp, cacheTTLSec)
           \/ GetDomain_CacheMiss(c, clientIp, cacheTTLSec)

\* The step is a selection call answered from the cache with domain, without
\* geo-lookup or distance computation.
AnsweredFromCache(clientIp, domain) ==
    /\ out'.op = "select" /\ out'.ip = clientIp
    /\ out'.err = "" /\ out'.hit
    /\ out'.domain = domain
    /\ out'.geoLookups = 0 /\ out'.distCalcs = 0

\* C3 as stated: a call that starts right after a successful selection for
\* the same client IP is answered from the cache with the identical domain.
C3_SecondCallHits ==
    [][(out.op = "select" /\ out.err = "" /\ SecondCall(out.ip))
          => AnsweredFromCache(out.ip, out.domain)]_vars

\* C3 amended: the same, provided the decision is in the cache when the first
\* call returns (the insert was not skipped by the capacity check, and the
\* entry was neither overwritten by a concurrent miss nor swept).
C3_SecondCallHitsIfCached ==
    [][(/\ out.op = "select" /\ out.err = ""
        /\ cache[out.ip] # NoEntry /\ cache[out.ip].Domain = out.domain
        /\ SecondCall(out.ip))
          => AnsweredFromCache(out.ip, out.domain)]_vars

\* C3 witness: a selection that stored its decision has returned, and the
\* decision is in the cache for the call that follows.
C3_Witness ==
    /\ out.op = "select" /\ out.err = "" /\ out.stored
    /\ cache[out.ip] # NoEntry /\ cache[out.ip].Domain = out.domain

\* C6: the capacity check of a miss goes on to insert exactly when CacheLen
\* is at or below maxCacheSize; otherwise the call changes neither the cache
\* nor CacheLen, at the check and at its return, and returns the domain it
\* computed. Entries are written only by calls that passed the check, and a
\* call that passes it finds at most maxCacheSize entries in the cache.
C6_CheckStep ==
    \A c \in Callers :
        /\ (sel[c].pc = "range" /\ sel'[c].pc \notin {"range", "idle"}) =>
              IF CacheLen <= maxCacheSize
              THEN /\ sel'[c].pc = "add"
                   /\ Cardinality(Keys(cache)) <= maxCacheSize
              ELSE /\ sel'[c].pc = "ret" /\ ~sel'[c].stored
                   /\ sel'[c].bestDomain = sel[c].bestDomain
                   /\ UNCHANGED <<cache, CacheLen>>
        /\ (sel[c].pc = "ret" /\ sel'[c].pc = "idle") =>
              /\ out'.err = "" /\ out'.domain = sel[c].bestDomain
              /\ out'.domain \in Domains
              /\ UNCHANGED <<cache, CacheLen>>
        /\ (sel[c].pc = "add" /\ sel'[c].pc # "add") =>
              /\ sel'[c].pc = "store" /\ CacheLen' = CacheLen + 1
        /\ (sel[c].pc = "store" /\ sel'[c].pc # "store") =>
              /\ sel'[c].pc = "ret" /\ sel'[c].stored
              /\ cache'[sel[c].ip] # NoEntry

C6_InsertWithinCapacity == [][C6_CheckStep]_vars

\* C6 witness: a miss found CacheLen above maxCacheSize, skipped the insert
\* and returned its domain; its client IP is not in the cache.
C6_Witness ==
    /\ RangedReturn /\ out.err = "" /\ ~out.stored
    /\ out.domain \in Domains
    /\ CacheLen > maxCacheSize
    /\ cache[out.ip] = NoEntry

\* C7: with selection calls that do not overlap, the decision cache never
\* holds more than maxCacheSize entries.
C7_WithinMaxCacheSize == Cardinality(Keys(cache)) <= maxCacheSize

\* C8: with maxCacheSize = N-1 for the N client IPs that can be selected
\* for, under every interleaving the cache holds at most N entries, and an
\* entry only changes by the Store of a call for its key, to the domain that
\* call computed, or by a Delete of the sweeper; all other keys are untouched.
C8_StoreStep ==
    (cache' # cache /\ maxCacheSize = Cardinality(LocatableIPs) - 1) =>
        \A ip \in ClientIPs :
            cache'[ip] # cache[ip] =>
                /\ ip \in LocatableIPs
                /\ \A other \in ClientIPs \ {ip} : cache'[other] = cache[other]
                /\ \/ cache'[ip] = NoEntry /\ sweep.pc = "delete" /\ sweep.key = ip
                   \/ \E c \in Callers :
                         /\ sel[c].pc = "store" /\ sel'[c].pc = "ret"
                         /\ sel[c].ip = ip
                         /\ cache'[ip].Domain = sel[c].bestDomain
                         /\ cache'[ip].TTLSec = sel[c].ttl

C8_BoundedOvershoot ==
    /\ [](maxCacheSize = Cardinality(LocatableIPs) - 1
             => Cardinality(Keys(cache)) <= Cardinality(LocatableIPs))
    /\ [][C8_StoreStep]_vars

\* C8 witness: with maxCacheSize = 1, two overlapping calls for the two
\* client IPs both passed the capacity check and both stored: the cache holds
\* 2 entries, one per key, each with the domain its call computed.
C8_Witness ==
    /\ maxCacheSize = Cardinality(LocatableIPs) - 1
    /\ \A c \in Callers : sel[c].pc = "ret" /\ sel[c].stored
    /\ sel["c1"].ip # sel["c2"].ip
    /\ Keys(cache) = LocatableIPs
    /\ Cardinality(Keys(cache)) > maxCacheSize
    /\ \A c \in Callers : cache[sel[c].ip].Domain = sel[c].bestDomain

\* C9: an entry whose age does not exceed its TTL stays in the cache (calls
\* for its key are answered from it), and no entry is in the cache once more
\* than its TTL plus one sweep interval has passed since its insertion.
C9_KeptStep ==
    \A ip \in ClientIPs :
        (cache[ip] # NoEntry /\ ~Expired(cache[ip])) => cache'[ip] # NoEntry

C9_Gone ==
    \A ip \in ClientIPs :
        cache[ip] # NoEntry =>
            now - cache[ip].InsertTime <= cache[ip].TTLSec + SweepIntervalSec

C9_TTLWindow == [][C9_KeptStep]_vars /\ []C9_Gone

\* C11: a call of getIPLatLong for an address that has no record in the
\* snapshot g.database returns an error and no location.
C11_NotFoundError ==
    (out.op = "locate" /\ MMDB(database, out.ip) = NotFound) =>
        (out.err /\ out.location = NoEntry)

\* C14: a sync that fails (download error, bad status, or a file that cannot
\* be opened) leaves g.database the snapshot it was when the sync started and
\* puts the syncer back to waiting for its next tick; g.database is an opened
\* snapshot at all times and changes only by the assignment of a sync that
\* opened the file.
C14_FailedSyncStep ==
    /\ (out'.op = "sync" /\ out'.err # "") =>
          /\ database' = syncer.before
          /\ database' = database
          /\ syncer'.pc = "idle"
          /\ syncer'.day = syncer.day
    /\ database' # database =>
          /\ syncer.pc = "assign"
          /\ database' = Open(databaseFile).db

SeenAlive(c) == {d \in Domains : sel[c].obs[d] # NoEntry /\ sel[c].obs[d].IsAlive}

\* C12: a selection call whose geo lookup of the client fails, or whose range
\* loop ends without having read any domain as alive, returns at that step
\* with an error and the empty domain; the call has executed no Store, and
\* none of its steps up to and including the return changes the decision
\* cache or CacheLen.
C12_ErrorStep ==
    \A c \in Callers :
        /\ (sel[c].pc = "locate" /\ getIPLatLong(sel[c].ip) = NoEntry /\ sel'[c] # sel[c]) =>
              /\ out'.op = "select" /\ out'.caller = c
              /\ out'.err = "lookup" /\ out'.domain = ""
        /\ (sel[c].pc = "range" /\ sel[c].toVisit = {} /\ SeenAlive(c) = {}
                /\ sel'[c] # sel[c]) =>
              /\ out'.op = "select" /\ out'.caller = c
              /\ out'.err = "alldown" /\ out'.domain = ""
        /\ (out'.op = "select" /\ out'.caller = c /\ out'.err \in {"lookup", "alldown"}) =>
              /\ out'.domain = "" /\ ~out'.stored /\ ~out'.hit
              /\ sel[c].pc \in {"locate", "range"}
              /\ sel'[c].pc = "idle"
        /\ (sel[c].pc \in {"idle", "locate", "rlock", "range"}
                /\ (sel'[c] # sel[c] \/ (out'.op = "select" /\ out'.caller = c))) =>
              UNCHANGED <<cache, CacheLen>>

C12_ErrorWritesNothing == [][C12_ErrorStep]_vars

\* C12 witness: with a decision in the cache, a call for another client read
\* registered domains, none of them alive, and returned the error; the cache
\* still holds the one entry and CacheLen is 1.
C12_Witness ==
    /\ out.op = "select" /\ out.err = "alldown" /\ out.domain = ""
    /\ ObservedAll # {}
    /\ Cardinality(Keys(cache)) = 1 /\ CacheLen = 1
    /\ cache[out.ip] = NoEntry

\* C13: a request for which the selection engine returned an error gets no
\* redirect and is passed to the next handler exactly once.
C13_ErrorPassesOn ==
    (out.op = "serve" /\ out.engineErr # "") =>
        /\ out.engineCalls = 1
        /\ out.redirects = 0 /\ out.location = ""
        /\ out.nexts = 1

\* C13 witness: the engine found every domain down for a request to a
\* configured host, and the request went to the next handler, once.
C13_Witness ==
    /\ out.op = "serve" /\ out.engineErr = "alldown"
    /\ out.Host \in DomainNames
    /\ out.redirects = 0 /\ out.nexts = 1

\* C15: a request whose client address is IPv6 is passed to the next handler
\* without a call of the selection engine and without a redirect.
C15_IPv6NeverRedirected ==
    (out.op = "serve" /\ Is6(out.RemoteAddr)) =>
        /\ out.engineCalls = 0
        /\ out.redirects = 0
        /\ out.nexts = 1

\* C16: a failed health probe of a registered domain is retried within the
\* health refresh: the refresh does not go on to the next domain right after
\* the first failed probe.
C16_FailedProbeRetried ==
    [][\A status \in ProbeOutcomes :
          (/\ Health_Probe(status)
           /\ domainLocations[hostingDomains[upd.idx]] # Nil
           /\ ~(status >= 200 /\ status < 400))
             => upd'.idx = upd.idx]_vars

\* C19: the records of the published registry map hold the values they had
\* when the map was swapped in.
C19_PublishedNeverMutated ==
    \A d \in Domains : Deref(domainLocations, recs)[d] = published[d]

\* C20: the map a health refresh swaps in has exactly the domains of the map
\* it replaces, each with the location it had, and alive exactly when the
\* probe of this refresh answered with a status code in [200,400); a
\* transport error (0) or any other code makes it not-alive.
C20_HealthSwapStep ==
    (upd.pc = "healthLocked" /\ upd'.pc = "healthAssigned") =>
        /\ Registered(domainLocations') = Registered(domainLocations)
        /\ \A d \in Registered(domainLocations) :
              LET old == recs[domainLocations[d]]
                  new == recs'[domainLocations'[d]]
              IN  /\ new.Lat = old.Lat /\ new.Long = old.Long
                  /\ new.Lat = published[d].Lat /\ new.Long = published[d].Long
                  /\ upd.status[d] # NoStatus
                  /\ new.IsAlive = (upd.status[d] >= 200 /\ upd.status[d] < 400)

C17_IdentityAndSymmetry ==
    out.op = "distance" =>
        /\ (out.from = out.to => out.km = 0)
        /\ out.km = HaversineDistance(out.to[1], out.to[2], out.from[1], out.from[2])

\* C17 witness: the distance from London to New York has been computed; it
\* is not 0 and it is the distance from New York to London.
C17_Witness ==
    /\ out.op = "distance" /\ out.from = London /\ out.to = NewYork
    /\ out.km > 0
    /\ out.km = HaversineDistance(NewYork[1], NewYork[2], London[1], London[2])

\* The return value is within 0.001 km of km, given in units of 1e-4 km.
Within(km) == Abs(out.km - km) <= 10

\* C18: HaversineDistance is the great-circle distance on a sphere of radius
\* 6371 km to within 0.001 km: 5570.222 from New York to London, 20015.087
\* between antipodal points (on the equator, and pole to pole), and a quarter
\* of the circumference, 10007.543, from the equator to a pole.
C18_TestDistances ==
    out.op = "distance" =>
        /\ (out.from = NewYork /\ out.to = London) => Within(55702220)
        /\ (out.from = <<0, 0>> /\ out.to = <<0, Deg(180)>>) => Within(200150870)
        /\ (out.from = <<Deg(90), 0>> /\ out.to = <<Deg(-90), 0>>) => Within(200150870)
        /\ (out.from[1] = 0 /\ Abs(out.to[1]) = Deg(90)) => Within(100075430)

\* C18 witness: the distance from New York to London has been computed, by
\* the series, and is 5570.222 km to within 0.001 km.
C18_Witness ==
    /\ out.op = "distance" /\ out.from = NewYork /\ out.to = London
    /\ out.km > 55702210 /\ out.km < 55702230

\* C21: the map a location refresh swaps in holds exactly the configured
\* domains whose resolution and geo-lookup both succeeded in the cycle: a
\* domain that resolved to no address, whose address has no record in the
\* geo database, or whose record cannot be decoded is absent.
C21_LocationSwapStep ==
    (upd.pc = "locLocked" /\ upd'.pc = "locAssigned") =>
        Registered(domainLocations') = {d \in Domains : upd.lookup[d] = "ok"}

C21_ExactlyLocated == [][C21_LocationSwapStep]_vars

\* C22: every key of the registry map is a configured domain.
C22_KeysConfigured == Registered(domainLocations) \subseteq Domains

\* C22 witness: a health refresh, after the location refresh of its cycle,
\* has swapped in a map with all the configured domains.
C22_Witness ==
    /\ upd.pc = "healthAssigned"
    /\ Registered(domainLocations) = Domains


\* C23: each goroutine holds its write lock for the assignment only.  The
\* updater takes the registry write lock after the loop over the hosting
\* domains has ended, and while it holds the lock its steps are the assignment
\* and the unlock: no DNS lookup and no health probe is answered.  The syncer
\* takes the database write lock with the file already opened, and while it
\* holds the lock its steps are the assignment and the unlock: nothing is
\* downloaded, the file is not written and not opened.
C23_WriteLockStep ==
    /\ (~domainLocationsLock.writer /\ domainLocationsLock'.writer) =>
           /\ upd.idx > Len(hostingDomains)
           /\ upd'.pc \in {"locLocked", "healthLocked"}
    /\ (domainLocationsLock.writer /\ upd' # upd) =>
           /\ \/ /\ upd.pc \in {"locLocked", "healthLocked"}
                 /\ upd'.pc \in {"locAssigned", "healthAssigned"}
                 /\ domainLocations' = upd.newLocations
                 /\ domainLocationsLock'.writer
              \/ /\ upd.pc \in {"locAssigned", "healthAssigned"}
                 /\ ~domainLocationsLock'.writer
           /\ \A d \in Domains : /\ upd'.lookup[d] \in {upd.lookup[d], "none"}
                                 /\ upd'.status[d] \in {upd.status[d], NoStatus}
    /\ (~databaseLock.writer /\ databaseLock'.writer) =>
           /\ syncer.pc = "lock"
           /\ syncer.opened # ""
    /\ (databaseLock.writer /\ syncer' # syncer) =>
           /\ \/ /\ syncer.pc = "assign"
                 /\ database' = syncer.opened
                 /\ databaseLock'.writer
              \/ /\ syncer.pc = "unlock"
                 /\ ~databaseLock'.writer
           /\ databaseFile' = databaseFile
           /\ syncer'.opened = ""
C23_LocksForAssignmentOnly == [][C23_WriteLockStep]_vars
\* Both write locks are held at once, after a location refresh that resolved
\* every domain and a download of the database.
C23_Witness ==
    /\ domainLocationsLock.writer
    /\ databaseLock.writer
    /\ upd.pc = "healthAssigned"
    /\ syncer.pc = "unlock"
    /\ databaseFile.bySync

\* C24: at every point of a download the file at the configured path holds a
\* complete database, the previous one or the downloaded one: it is never
\* empty and never holds a part of the body.
C24_FileComplete == databaseFile.content \notin {"empty", "partial"}

\* C25: syncDatabase goes on to download exactly when a remote URI is
\* configured, the period is positive, and the file is missing, is a
\* directory, or is at least the period old; in every other case it goes on
\* to open the file as it is.
C25_DownloadStep ==
    (syncer.pc = "stat" /\ syncer'.pc # "stat") =>
        LET stale == \/ databaseFile.content \in {"absent", "dir"}
                     \/ AgeDays(databaseFile, syncer.day) >= syncer.days
        IN  /\ databaseFile' = databaseFile
            /\ IF syncer.uri # "" /\ syncer.days > 0 /\ stale
               THEN syncer'.pc = "get"
               ELSE syncer'.pc = "open"
C25_DownloadExactlyWhen == [][C25_DownloadStep]_vars

\* C26: a call of Resolve with a valid TTL that finds an entry returns the
\* first address of the entry, makes no DNS lookup and leaves the cache as it
\* is.  A call that finds none makes one lookup: when the lookup fails or
\* gives no address the call returns an error and the cache is as before;
\* otherwise the cache holds, for the hostname, all the addresses of the
\* answer with the TTL of the call, and the call returns the first of them.
C26_ResolveStep ==
    \A h \in Domains :
        (out'.op = "resolve" /\ out'.hostname = h /\ out'.ttl >= MinTTLSec) =>
            IF dnsCache[h] # NoEntry
            THEN /\ out'.ip = dnsCache[h].Ips[1]
                 /\ out'.err = ""
                 /\ out'.lookups = 0
                 /\ dnsCache' = dnsCache
            ELSE /\ out'.lookups = 1
                 /\ \/ /\ out'.err # ""
                       /\ out'.ip = ""
                       /\ dnsCache' = dnsCache
                    \/ /\ Len(out'.hostIps) > 0
                       /\ out'.err = ""
                       /\ out'.ip = out'.hostIps[1]
                       /\ dnsCache'[h] # NoEntry
                       /\ dnsCache'[h].Ips = out'.hostIps
                       /\ dnsCache'[h].TTLSec = out'.ttl
                       /\ \A g \in Domains \ {h} : dnsCache'[g] = dnsCache[g]
C26_Resolve == [][C26_ResolveStep]_vars
\* A miss has stored both addresses of an answer and returned the first.
C26_Witness ==
    /\ out.op = "resolve"
    /\ out.lookups = 1
    /\ out.err = ""
    /\ Len(out.hostIps) = 2
    /\ dnsCache[out.hostname] # NoEntry
    /\ dnsCache[out.hostname].Ips = out.hostIps
    /\ out.ip = dnsCache[out.hostname].Ips[1]

\* C27: every selection call returns: a caller that is inside a call is
\* eventually outside it again.
C27_EveryCallReturns == \A c \in Callers : (sel[c].pc # "idle") ~> (sel[c].pc = "idle")

\* C28: whenever no caller is inside a selection call and the sweeper is
\* between two sweeps, CacheLen is the number of entries of the decision cache.
C28_CacheLenExact ==
    ((\A c \in Callers : sel[c].pc = "idle") /\ sweep.pc = "idle") =>
        CacheLen = Cardinality(Keys(cache))

\* C29: the swap of a location refresh does not make a domain alive again: a
\* domain whose record in the registry is not alive, and that the new map
\* holds as well, is not alive in the new map.
C29_LocationSwapStep ==
    (upd.pc = "locLocked" /\ upd'.pc = "locAssigned") =>
        \A d \in Domains :
            (/\ domainLocations[d] # Nil
             /\ ~recs[domainLocations[d]].IsAlive
             /\ domainLocations'[d] # Nil) =>
                ~recs'[domainLocations'[d]].IsAlive
C29_StaysNotAlive == [][C29_LocationSwapStep]_vars

\* C30: the domain a selection call returns without an error, from the cache
\* or from the range loop, is in the registry and alive when the call returns.
C30_ReturnedAlive ==
    (out.op = "select" /\ out.err = "") =>
        /\ out.domain \in Registered(domainLocations)
        /\ recs[domainLocations[out.domain]].IsAlive

\* C31: the entry cache.Delete removes in a sweep is expired at the moment of
\* the deletion: its age exceeds its TTL.
C31_DeleteStep ==
    (sweep.pc = "delete" /\ sweep'.pc = "dec" /\ cache[sweep.key] # NoEntry) =>
        now - cache[sweep.key].InsertTime > cache[sweep.key].TTLSec
C31_OnlyExpiredDeleted == [][C31_DeleteStep]_vars

\* C32: no deadlock is reachable among concurrent selection calls, the
\* location and health refreshes, the cache sweep and the database sync.
\* (1) A lock is held exactly while its holder is between the acquire and the
\* release of one critical section: a caller is a reader of the registry lock
\* from its RLock to its return, the updater is its writer from Lock to
\* Unlock, the syncer is the writer of the database lock from Lock to Unlock,
\* and the read lock of the database does not outlive a getIPLatLong call; so
\* every lock acquired is released on every path.  (2) A task that is about to
\* acquire one lock holds neither lock, so the two are never nested.  (3) A
\* task in the middle of an operation can take a step, or waits for a lock
\* whose holder can take a step; a caller whose range loop has a key left to
\* visit runs the next iteration, which takes no lock.
C32_NoDeadlock ==
    /\ domainLocationsLock.readers \subseteq Callers
    /\ \A c \in Callers :
          c \in domainLocationsLock.readers <=>
              sel[c].pc \in {"range", "add", "store", "ret"}
    /\ domainLocationsLock.writer <=>
          upd.pc \in {"locLocked", "locAssigned", "healthLocked", "healthAssigned"}
    /\ databaseLock.writer <=> syncer.pc \in {"assign", "unlock"}
    /\ databaseLock.readers = {}
    /\ \A c \in Callers :
          sel[c].pc \in {"locate", "rlock"} => c \notin domainLocationsLock.readers
    /\ upd.pc \in {"loc", "health"} => ~domainLocationsLock.writer
    /\ syncer.pc = "lock" => ~databaseLock.writer
    /\ \A c \in Callers :
          sel[c].pc # "idle" =>
              \/ sel[c].pc = "range" /\ sel[c].toVisit # {}
              \/ ENABLED GetDomain_Steps(c)
              \/ /\ sel[c].pc = "locate"
                 /\ databaseLock.writer
                 /\ ENABLED syncDatabase
              \/ /\ sel[c].pc = "rlock"
                 /\ domainLocationsLock.writer
                 /\ ENABLED (updateDomainLocations \/ updateDomainHealthState)
    /\ upd.pc # "idle" =>
          \/ ENABLED (updateDomainLocations \/ updateDomainHealthState)
          \/ /\ upd.pc = "loc"
             /\ databaseLock.writer
             /\ ENABLED syncDatabase
          \/ /\ upd.pc \in {"loc", "health"}
             /\ domainLocationsLock.readers # {}
             /\ \A c \in domainLocationsLock.readers :
                   \/ sel[c].pc = "range" /\ sel[c].toVisit # {}
                   \/ ENABLED GetDomain_Steps(c)
    /\ syncer.pc # "idle" => ENABLED syncDatabase
    /\ sweep.pc # "idle" => ENABLED StartCacheCleanup

\* The syncer holds the database lock and caller c1 the read lock of the
\* registry, while caller c2 waits for the database lock and the updater,
\* its loop over, for the registry lock.
C32_Witness ==
    /\ databaseLock.writer
    /\ "c1" \in domainLocationsLock.readers
    /\ sel["c2"].pc = "locate"
    /\ upd.pc = "health"
    /\ LoopDone(upd.idx)

\* C33: a request gets a redirect or goes to the next handler, never both:
\* ServeHTTP has called exactly one of http.Redirect and next.ServeHTTP when
\* it returns.
C33_RedirectOrNext ==
    (out.op = "serve") => (out.redirects + out.nexts = 1)

\* C34: every domain held by an entry of the decision cache, and every domain
\* a selection call returns without an error, is one of the configured
\* hosting domains, and so is not the empty string.
C34_DomainsConfigured ==
    /\ \A ip \in DOMAIN cache : cache[ip] # NoEntry => cache[ip].Domain \in Domains
    /\ (out.op = "select" /\ out.err = "") => out.domain \in Domains
====
